---- MODULE Spec2Model ----
(***************************************************************************)
(* State-machine model of atomic_sync: atomic_mutex (mutex_storage) and    *)
(* atomic_shared_mutex (shared_mutex_storage) over a futex-style wait/wake *)
(* facility.  Every atomic read-modify-write, load, store, futex wait and  *)
(* futex wake of the source is one step of one thread; purely local        *)
(* computation (branching on the local copy lk, the spin countdown) is     *)
(* folded into the step of the atomic operation that precedes it.          *)
(*                                                                         *)
(* The state words are kept as integers of WordBits bits.  TLC integers    *)
(* are 32-bit signed, so the most significant bit of the uint32_t of the   *)
(* source is represented by the most significant bit of a narrower word;   *)
(* all arithmetic is modulo 2^WordBits as it is modulo 2^32 in the source. *)
(***************************************************************************)
EXTENDS Integers, FiniteSets, Sequences, TLC

\* ------------------------------------------------------------------ bounds
NThreads == 3
MaxSpin == 1
MaxCS == 2
WordBits == 6
MaxWaits == 3
CvHalfBits == 2
MaxDepth == 3

Threads == 1..NThreads
SpinRounds == 1..MaxSpin

\* --------------------------------------------------------------- constants
\* mutex_storage::WAITER, mutex_storage::HOLDER (the most significant bit)
WAITER == 1
HOLDER == 2^(WordBits - 1)
Modulus == 2^WordBits

\* ---------------------------------------------------- word arithmetic (T)
FetchAdd(w, d) == (w + d) % Modulus
FetchSub(w, d) == (w - d + Modulus) % Modulus
\* w & HOLDER, as a truth value
HasHolder(w) == w >= HOLDER
\* w | HOLDER
OrHolder(w) == IF w >= HOLDER THEN w ELSE w + HOLDER
\* w & ~HOLDER
LowBits(w) == w % HOLDER

\* build configuration: TRUE selects the branches compiled for i386/x86-64
\* with GCC-style inline assembler (IF_FETCH_OR_GOTO, fetch_add in
\* lock_inner), FALSE the portable branches
X86 == TRUE

VARIABLES
  m,        \* the mutex_storage word (for a SuxMutex: the word of `outer')
  mpc,      \* per thread: position inside atomic_mutex / mutex_storage code
  mlk,      \* per thread: the local `lk' of lock_wait / spin_lock_wait
  mspin,    \* per thread: the local `spin' of spin_lock_wait
  n,        \* test_mutex: the counter protected by the mutex
  ncs,      \* number of critical sections entered so far
  tmp,      \* per thread: value of n read inside the critical section
  cpc,      \* per thread: position inside the critical section
  inner,    \* shared_mutex_storage::inner
  spc,      \* per thread: position inside atomic_shared_mutex code
  slk,      \* per thread: the local `lk' of shared_lock_inner / lock_inner_wait
  wpri,     \* history: per thread in lock_shared(), the thread that was waiting
            \* for X when the call started and has not released since (else 0)
  iwakes,   \* history: wakes on inner decided since X was last set
  test,     \* which test of main() the threads run: "mutex" or "sux"
            \* ("mutex_linux": the Mutex test on the Linux build)
  cv,       \* the word of the atomic_condition_variable
  kpc,      \* per thread: position inside the condition variable tests
  kval,     \* per thread: 1 + val, the value wait() sleeps on
  critical, \* the predicate of test_condition_variable
  pending,  \* the counter handed over by signal(), one unit per signal
  sigs,     \* number of signal() rounds the signalling thread has started
  waits,    \* number of calls of wait() / wait_shared() made so far
  cvkind,   \* which atomic_condition_variable.h is compiled: "counter"
            \* (src/atomic_sync) or "event" (src/examples)
  unreleased, \* history: threads that incremented the word in wait() and
            \* have not been released by a signal() / broadcast() since
  recursive, \* atomic_recursive_shared_mutex::recursive
  writer,   \* atomic_recursive_shared_mutex::writer, 0 for std::thread::id{}
  rpc,      \* per thread: position inside a call of the recursive mutex
  mixed,    \* history: a re-entrant lock_update() was made while X was held
  elided    \* per thread: the flavour of its transactional guard whose lock
            \* was elided ("x", "s" or "u"), "none" outside a transaction

mvars == <<m, mpc, mlk, mspin>>
cvars == <<n, ncs, tmp, cpc>>
svars == <<inner, spc, slk, wpri, iwakes>>
kvars == <<cv, kpc, kval, critical, pending, sigs, waits, cvkind, unreleased>>
rvars == <<recursive, writer, rpc, mixed>>
\* the variables of the tests that the Mutex and SuxMutex tests do not use
tvars == <<kvars, rvars>>
vars == <<m, mpc, mlk, mspin, n, ncs, tmp, cpc, inner, spc, slk, wpri, iwakes, test,
          cv, kpc, kval, critical, pending, sigs, waits, cvkind, unreleased,
          recursive, writer, rpc, mixed, elided>>

\* ------------------------------------------------------------------- Init
\* the condition variable is zero-initialized and no thread runs its tests
KIdle ==
  /\ cv = 0
  /\ kpc = [t \in Threads |-> "none"]
  /\ kval = [t \in Threads |-> 0]
  /\ critical = FALSE
  /\ pending = 0
  /\ sigs = 0
  /\ waits = 0
  /\ cvkind = "counter"
  /\ unreleased = {}

\* the mutexes are zero-initialized and every thread is outside every call
InitLocks ==
  /\ m = 0
  /\ mpc = [t \in Threads |-> "idle"]
  /\ mlk = [t \in Threads |-> 0]
  /\ mspin = [t \in Threads |-> 0]
  /\ n = 0
  /\ ncs = 0
  /\ tmp = [t \in Threads |-> 0]
  /\ cpc = [t \in Threads |-> "out"]
  /\ inner = 0
  /\ spc = [t \in Threads |-> "idle"]
  /\ slk = [t \in Threads |-> 0]
  /\ wpri = [t \in Threads |-> 0]
  /\ iwakes = 0
  /\ recursive = 0
  /\ writer = 0
  /\ rpc = [t \in Threads |-> "idle"]
  /\ mixed = FALSE
  /\ elided = [t \in Threads |-> "none"]

Init ==
  /\ InitLocks
  /\ test \in {"mutex", "sux"}
  /\ KIdle

\* ------------------------------------------------------------ atomic_mutex
\* positions of the wait loop (lock_wait, and the second loop of
\* spin_lock_wait): about to call wait(lk) when lk has HOLDER, else about to
\* fetch_or(HOLDER)
LoopPc(lk) == IF HasHolder(lk) THEN "lw_wait" ELSE "lw_or"
\* positions of the spin loop of spin_lock_wait
SpinPc(lk) == IF HasHolder(lk) THEN "sp_load" ELSE "sp_or"

\* a thread that is in the acquire path after registering (fetch_add(WAITER))
\* and before acquiring
RegisteredPcs == {"lw_wait", "lw_asleep", "lw_reload", "lw_or", "sp_load", "sp_or"}
\* a thread that has called lock()/spin_lock() and not yet returned
AcquirePcs == RegisteredPcs \cup {"lw_add", "sp_add"}

\* mutex_storage::lock_impl: compare_exchange_strong(0, HOLDER + WAITER);
\* whether it succeeds on the word w, and the word it leaves
\* variant: the exchange succeeds whenever HOLDER is clear
LockImplOkHolderClear(w) == ~HasHolder(w)
\* variant: an unconditional exchange in place of the compare-exchange
LockImplOkAlways(w) == TRUE
LockImplOk(w) == w = 0
\* variant: the exchange installs HOLDER without counting the holder
LockImplValueNoWaiter(w) == IF LockImplOk(w) THEN HOLDER ELSE w
LockImplValue(w) == IF LockImplOk(w) THEN HOLDER + WAITER ELSE w

\* the fetch_or(HOLDER) of lock_wait / spin_lock_wait acquires the mutex
\* when HOLDER was clear in the fetched value
\* variant: the test of the fetched HOLDER bit inverted
FetchOrAcquiredInverted(prev) == HasHolder(prev)
FetchOrAcquired(prev) == ~HasHolder(prev)

\* atomic_mutex::try_lock
TryLock(t) ==
  /\ mpc[t] = "idle"
  /\ m' = LockImplValue(m)
  /\ mpc' = [mpc EXCEPT ![t] = IF LockImplOk(m) THEN "held" ELSE "idle"]
  /\ UNCHANGED <<mlk, mspin>>

\* atomic_mutex::lock: if (!lock_impl()) wait_and_lock()
Lock(t) ==
  /\ mpc[t] = "idle"
  /\ m' = LockImplValue(m)
  /\ mpc' = [mpc EXCEPT ![t] = IF LockImplOk(m) THEN "held" ELSE "lw_add"]
  /\ UNCHANGED <<mlk, mspin>>

\* atomic_mutex::spin_lock: if (!lock_impl()) spin_wait_and_lock(spin_rounds)
SpinLock(t, spin_rounds) ==
  /\ mpc[t] = "idle"
  /\ m' = LockImplValue(m)
  /\ mpc' = [mpc EXCEPT ![t] = IF LockImplOk(m) THEN "held" ELSE "sp_add"]
  /\ mspin' = [mspin EXCEPT ![t] = IF LockImplOk(m) THEN 0 ELSE spin_rounds]
  /\ UNCHANGED mlk

\* lock_wait: T lk = WAITER + m.fetch_add(WAITER, relaxed)
LockWaitAdd(t) ==
  /\ mpc[t] = "lw_add"
  /\ m' = FetchAdd(m, WAITER)
  /\ mlk' = [mlk EXCEPT ![t] = FetchAdd(m, WAITER)]
  /\ mpc' = [mpc EXCEPT ![t] = LoopPc(FetchAdd(m, WAITER))]
  /\ UNCHANGED mspin
  /\ UNCHANGED <<cvars, svars, test, elided, tvars>>

\* wait(lk): the futex wait sleeps only if the word still equals lk
\* variant: a wait that sleeps without comparing the word with lk
FutexWaitPcUnconditional(w, lk) == "lw_asleep"
FutexWaitPc(w, lk) == IF w = lk THEN "lw_asleep" ELSE "lw_reload"

LockWaitWait(t) ==
  /\ mpc[t] = "lw_wait"
  /\ mpc' = [mpc EXCEPT ![t] = FutexWaitPc(m, mlk[t])]
  /\ UNCHANGED <<m, mlk, mspin>>
  /\ UNCHANGED <<cvars, svars, test, elided, tvars>>

\* a wait loop that takes the return of the wait for the grant of the mutex
SpuriousWakeHeld(t) ==
  /\ mpc[t] = "lw_asleep"
  /\ mpc' = [mpc EXCEPT ![t] = "held"]
  /\ UNCHANGED <<m, mlk, mspin>>
  /\ UNCHANGED <<cvars, svars, test, elided, tvars>>

\* the futex wait returns without a wake (permitted by the wait facility)
SpuriousWake(t) ==
  /\ mpc[t] = "lw_asleep"
  /\ mpc' = [mpc EXCEPT ![t] = "lw_reload"]
  /\ UNCHANGED <<m, mlk, mspin>>
  /\ UNCHANGED <<cvars, svars, test, elided, tvars>>

\* lk = m.load(relaxed) after wait() returned (label reload)
LockWaitReload(t) ==
  /\ mpc[t] = "lw_reload"
  /\ mlk' = [mlk EXCEPT ![t] = m]
  /\ mpc' = [mpc EXCEPT ![t] = LoopPc(m)]
  /\ UNCHANGED <<m, mspin>>
  /\ UNCHANGED <<cvars, svars, test, elided, tvars>>

\* m.fetch_or(HOLDER, relaxed) of the wait loop.  x86: on conflict goto
\* reload; portable: lk = the fetched value and the loop waits on it.
LockWaitOr(t) ==
  /\ mpc[t] = "lw_or"
  /\ m' = OrHolder(m)
  /\ IF FetchOrAcquired(m)
       THEN /\ mpc' = [mpc EXCEPT ![t] = "held"]
            /\ mlk' = [mlk EXCEPT ![t] = 0]
            /\ mspin' = [mspin EXCEPT ![t] = 0]
       ELSE /\ mpc' = [mpc EXCEPT ![t] = IF X86 THEN "lw_reload" ELSE "lw_wait"]
            /\ mlk' = [mlk EXCEPT ![t] = IF X86 THEN mlk[t] ELSE m]
            /\ mspin' = mspin
  /\ UNCHANGED <<cvars, svars, test, elided, tvars>>

\* `if (!--spin) break;' of the spin loop: the position after one iteration
\* that left the local copy lk and counted spin down to s
AfterSpin(lk, s) == IF s = 0 THEN LoopPc(lk) ELSE SpinPc(lk)
SpinDec(s) == (s - 1 + Modulus) % Modulus

\* spin_lock_wait: T lk = WAITER + m.fetch_add(WAITER, relaxed)
SpinLockWaitAdd(t) ==
  /\ mpc[t] = "sp_add"
  /\ m' = FetchAdd(m, WAITER)
  /\ mlk' = [mlk EXCEPT ![t] = FetchAdd(m, WAITER)]
  /\ mpc' = [mpc EXCEPT ![t] = SpinPc(FetchAdd(m, WAITER))]
  /\ UNCHANGED mspin
  /\ UNCHANGED <<cvars, svars, test, elided, tvars>>

\* spin loop, lk & HOLDER: lk = m.load(relaxed); if (!--spin) break
SpinLoad(t) ==
  /\ mpc[t] = "sp_load"
  /\ mlk' = [mlk EXCEPT ![t] = m]
  /\ mspin' = [mspin EXCEPT ![t] = SpinDec(mspin[t])]
  /\ mpc' = [mpc EXCEPT ![t] = AfterSpin(m, SpinDec(mspin[t]))]
  /\ UNCHANGED m
  /\ UNCHANGED <<cvars, svars, test, elided, tvars>>

\* spin loop, HOLDER clear in lk: fetch_or(HOLDER); acquired if it was
\* clear, else (x86) lk |= HOLDER or (portable) lk = the fetched value;
\* pause; if (!--spin) break
SpinOr(t) ==
  /\ mpc[t] = "sp_or"
  /\ m' = OrHolder(m)
  /\ IF FetchOrAcquired(m)
       THEN /\ mpc' = [mpc EXCEPT ![t] = "held"]
            /\ mlk' = [mlk EXCEPT ![t] = 0]
            /\ mspin' = [mspin EXCEPT ![t] = 0]
       ELSE LET lk == IF X86 THEN OrHolder(mlk[t]) ELSE m
            IN /\ mlk' = [mlk EXCEPT ![t] = lk]
               /\ mspin' = [mspin EXCEPT ![t] = SpinDec(mspin[t])]
               /\ mpc' = [mpc EXCEPT ![t] = AfterSpin(lk, SpinDec(mspin[t]))]
  /\ UNCHANGED <<cvars, svars, test, elided, tvars>>

\* unlock_impl's verdict on the fetched value lk: lk != HOLDER + WAITER
\* variant: the verdict compares with HOLDER alone
UnlockNotifyHolderOnly(lk) == lk # HOLDER
UnlockNotify(lk) == lk # HOLDER + WAITER

\* the word left by unlock_impl's fetch_sub(HOLDER + WAITER, release)
\* variant: the fetch_sub clears HOLDER but leaves the holder counted
UnlockImplValueKeepWaiter(w) == FetchSub(w, HOLDER)
UnlockImplValue(w) == FetchSub(w, HOLDER + WAITER)

\* atomic_mutex::unlock, mutex_storage::unlock_impl:
\* lk = fetch_sub(HOLDER + WAITER, release); notify = lk != HOLDER + WAITER
Unlock(t) ==
  /\ mpc[t] = "held"
  /\ m' = UnlockImplValue(m)
  /\ mpc' = [mpc EXCEPT ![t] = IF UnlockNotify(m) THEN "notify" ELSE "idle"]
  /\ UNCHANGED <<mlk, mspin>>

\* mutex_storage::unlock_notify: notify_one() wakes at most one sleeper
UnlockNotifyOne(t) ==
  /\ mpc[t] = "notify"
  /\ \/ \E s \in Threads :
          /\ mpc[s] = "lw_asleep"
          /\ mpc' = [mpc EXCEPT ![t] = "idle", ![s] = "lw_reload"]
     \/ /\ \A s \in Threads : mpc[s] # "lw_asleep"
        /\ mpc' = [mpc EXCEPT ![t] = "idle"]
  /\ UNCHANGED <<m, mlk, mspin>>
  /\ UNCHANGED <<cvars, svars, test, elided, tvars>>

\* ------------------------------------- test_mutex: the threads of the test
\* std::lock_guard g{a_m}: lock(), spin_lock(k) or try_lock()
CallLock(t) ==
  /\ ncs < MaxCS
  /\ cpc[t] = "out"
  /\ Lock(t)
  /\ UNCHANGED <<cvars, svars, test, elided, tvars>>

CallSpinLock(t) ==
  /\ ncs < MaxCS
  /\ cpc[t] = "out"
  /\ \E k \in SpinRounds : SpinLock(t, k)
  /\ UNCHANGED <<cvars, svars, test, elided, tvars>>

CallTryLock(t) ==
  /\ ncs < MaxCS
  /\ cpc[t] = "out"
  /\ TryLock(t)
  /\ UNCHANGED <<cvars, svars, test, elided, tvars>>

\* the critical section: n++ as a read followed by a write
CsRead(t) ==
  /\ mpc[t] = "held"
  /\ cpc[t] = "out"
  /\ tmp' = [tmp EXCEPT ![t] = n]
  /\ ncs' = ncs + 1
  /\ cpc' = [cpc EXCEPT ![t] = "inc"]
  /\ UNCHANGED <<mvars, n, svars, test, elided, tvars>>

CsWrite(t) ==
  /\ cpc[t] = "inc"
  /\ n' = tmp[t] + 1
  /\ tmp' = [tmp EXCEPT ![t] = 0]
  /\ cpc' = [cpc EXCEPT ![t] = "done"]
  /\ UNCHANGED <<mvars, ncs, svars, test, elided, tvars>>

CallUnlock(t) ==
  /\ cpc[t] = "done"
  /\ Unlock(t)
  /\ cpc' = [cpc EXCEPT ![t] = "out"]
  /\ UNCHANGED <<n, ncs, tmp, svars, test, elided, tvars>>

Next ==
  \E t \in Threads :
    \/ CallLock(t)
    \/ CallSpinLock(t)
    \/ CallTryLock(t)
    \/ CsRead(t)
    \/ CsWrite(t)
    \/ CallUnlock(t)
    \/ LockWaitAdd(t)
    \/ LockWaitWait(t)
    \/ SpuriousWake(t)
    \/ LockWaitReload(t)
    \/ LockWaitOr(t)
    \/ SpinLockWaitAdd(t)
    \/ SpinLoad(t)
    \/ SpinOr(t)
    \/ UnlockNotifyOne(t)

InitMutex == Init /\ test = "mutex"

Spec == InitMutex /\ [][Next]_vars

\* the Mutex test in which thread 1 may also call spin_lock(0)
NextSpin ==
  \/ Next
  \/ /\ ncs < MaxCS
     /\ cpc[1] = "out"
     /\ SpinLock(1, 0)
     /\ UNCHANGED <<cvars, svars, test, elided, tvars>>

SpecSpin == InitMutex /\ [][NextSpin]_vars

\* ------------------------------- atomic_mutex, Linux build (m_and_node)
\* On Linux lock_wait / spin_lock_wait are loops of compare_exchange_strong
\* on the 64-bit m_and_node; the model keeps its low half T(m_and_node),
\* which is the word lock_impl, unlock_impl and the futex operate on.
\* mlk is the local old_lk; the local `waiter' (WAITER until the thread has
\* registered, 0 afterwards) is part of the position.

\* uint64_t lk = T(old_lk) ? (old_lk + waiter) | HOLDER : first_holder_waiter
\* variant: the exchange adds WAITER on every attempt (waiter never reset)
LinuxCasValueAlwaysAdds(old_lk, waiter) == OrHolder(FetchAdd(old_lk, WAITER))
LinuxCasValue(old_lk, waiter) ==
  IF old_lk # 0 THEN OrHolder(FetchAdd(old_lk, waiter)) ELSE HOLDER + WAITER

\* the value of `waiter' at a position of the Linux loops
LinuxWaiter(pc) == IF pc \in {"lx_cas_w", "lxs_cas_w", "lx_wait_w"} THEN WAITER ELSE 0

\* positions of the Linux loops at which the thread has registered
LinuxRegisteredPcs == {"lx_wait_w", "lx_wait", "lx_cas", "lxs_cas", "lw_asleep"}

\* lock_wait (Linux): old_lk = m_and_node.load(relaxed); waiter = WAITER
LinuxLockWaitLoad(t) ==
  /\ mpc[t] = "lw_add"
  /\ mlk' = [mlk EXCEPT ![t] = m]
  /\ mpc' = [mpc EXCEPT ![t] = "lx_cas_w"]
  /\ UNCHANGED <<m, mspin>>
  /\ UNCHANGED <<cvars, svars, test, elided, tvars>>

\* the loop of lock_wait, and the second loop of spin_lock_wait (Linux):
\* compare_exchange_strong(old_lk, lk); on failure old_lk is reloaded; on
\* success return if HOLDER was clear in old_lk, else wait(T(lk)); waiter = 0
LinuxLockWaitCas(t) ==
  /\ mpc[t] \in {"lx_cas_w", "lx_cas"}
  /\ IF m # mlk[t]
       THEN /\ mlk' = [mlk EXCEPT ![t] = m]
            /\ UNCHANGED <<m, mpc>>
       ELSE /\ m' = LinuxCasValue(mlk[t], LinuxWaiter(mpc[t]))
            /\ mlk' = [mlk EXCEPT ![t] = IF HasHolder(mlk[t]) THEN mlk[t] ELSE 0]
            /\ mpc' = [mpc EXCEPT ![t] =
                 IF ~HasHolder(mlk[t]) THEN "held"
                 ELSE IF mpc[t] = "lx_cas_w" THEN "lx_wait_w" ELSE "lx_wait"]
  /\ UNCHANGED mspin
  /\ UNCHANGED <<cvars, svars, test, elided, tvars>>

\* wait(T(lk)) of the Linux loops: sleeps only if the word equals lk
LinuxLockWaitWait(t) ==
  /\ mpc[t] \in {"lx_wait_w", "lx_wait"}
  /\ mpc' = [mpc EXCEPT ![t] =
       IF m = LinuxCasValue(mlk[t], LinuxWaiter(mpc[t])) THEN "lw_asleep" ELSE "lx_cas"]
  /\ UNCHANGED <<m, mlk, mspin>>
  /\ UNCHANGED <<cvars, svars, test, elided, tvars>>

\* the futex wait returns without a wake (Linux loops)
LinuxSpuriousWake(t) ==
  /\ mpc[t] = "lw_asleep"
  /\ mpc' = [mpc EXCEPT ![t] = "lx_cas"]
  /\ UNCHANGED <<m, mlk, mspin>>
  /\ UNCHANGED <<cvars, svars, test, elided, tvars>>

\* spin_lock_wait (Linux): old_lk = m_and_node.load(relaxed); waiter = WAITER
LinuxSpinLockWaitLoad(t) ==
  /\ mpc[t] = "sp_add"
  /\ mlk' = [mlk EXCEPT ![t] = m]
  /\ mpc' = [mpc EXCEPT ![t] = "lxs_cas_w"]
  /\ UNCHANGED <<m, mspin>>
  /\ UNCHANGED <<cvars, svars, test, elided, tvars>>

\* `if (!--spin) break;' of the Linux spin loop: the position after one
\* iteration that left `waiter' as w and counted spin down to s
LinuxAfterSpin(w, s) ==
  IF s = 0 THEN (IF w = WAITER THEN "lx_cas_w" ELSE "lx_cas")
  ELSE (IF w = WAITER THEN "lxs_cas_w" ELSE "lxs_cas")

\* the spin loop of spin_lock_wait (Linux): one compare_exchange_strong; on
\* success with HOLDER set in old_lk: waiter = 0 and pause; if (!--spin) break
LinuxSpinCas(t) ==
  /\ mpc[t] \in {"lxs_cas_w", "lxs_cas"}
  /\ IF m # mlk[t]
       THEN /\ mlk' = [mlk EXCEPT ![t] = m]
            /\ mspin' = [mspin EXCEPT ![t] = SpinDec(mspin[t])]
            /\ mpc' = [mpc EXCEPT ![t] =
                 LinuxAfterSpin(LinuxWaiter(mpc[t]), SpinDec(mspin[t]))]
            /\ UNCHANGED m
       ELSE /\ m' = LinuxCasValue(mlk[t], LinuxWaiter(mpc[t]))
            /\ IF ~HasHolder(mlk[t])
                 THEN /\ mpc' = [mpc EXCEPT ![t] = "held"]
                      /\ mlk' = [mlk EXCEPT ![t] = 0]
                      /\ mspin' = [mspin EXCEPT ![t] = 0]
                 ELSE /\ mpc' = [mpc EXCEPT ![t] = LinuxAfterSpin(0, SpinDec(mspin[t]))]
                      /\ mspin' = [mspin EXCEPT ![t] = SpinDec(mspin[t])]
                      /\ UNCHANGED mlk
  /\ UNCHANGED <<cvars, svars, test, elided, tvars>>

\* mutex_storage::unlock_notify on Linux: futex_wake of at most one sleeper
LinuxUnlockNotifyOne(t) ==
  /\ mpc[t] = "notify"
  /\ \/ \E s \in Threads :
          /\ mpc[s] = "lw_asleep"
          /\ mpc' = [mpc EXCEPT ![t] = "idle", ![s] = "lx_cas"]
     \/ /\ \A s \in Threads : mpc[s] # "lw_asleep"
        /\ mpc' = [mpc EXCEPT ![t] = "idle"]
  /\ UNCHANGED <<m, mlk, mspin>>
  /\ UNCHANGED <<cvars, svars, test, elided, tvars>>

\* the Mutex test on the Linux build
NextLinux ==
  \E t \in Threads :
    \/ CallLock(t)
    \/ CallSpinLock(t)
    \/ CallTryLock(t)
    \/ CsRead(t)
    \/ CsWrite(t)
    \/ CallUnlock(t)
    \/ LinuxLockWaitLoad(t)
    \/ LinuxLockWaitCas(t)
    \/ LinuxLockWaitWait(t)
    \/ LinuxSpuriousWake(t)
    \/ LinuxSpinLockWaitLoad(t)
    \/ LinuxSpinCas(t)
    \/ LinuxUnlockNotifyOne(t)

InitLinux ==
  /\ InitLocks
  /\ test = "mutex_linux"
  /\ KIdle

SpecLinux == InitLinux /\ [][NextLinux]_vars

\* the Mutex test on either build
NextBuilds ==
  \/ test = "mutex" /\ Next
  \/ test = "mutex_linux" /\ NextLinux

SpecBuilds == (InitMutex \/ InitLinux) /\ [][NextBuilds]_vars

\* ------------------------------------------------------ atomic_shared_mutex
\* shared_mutex_storage::X (the most significant bit of inner)
X == 2^(WordBits - 1)
HasX(w) == w >= X
OrX(w) == IF w >= X THEN w ELSE w + X

\* positions inside lock_inner_wait: X is set, outer is held, and the thread
\* waits for the S holders to drain
XWaitPcs == {"x_wait", "x_asleep", "x_load"}
\* the thread waiting in lock_inner_wait, 0 if there is none
XWaiter ==
  IF \E a \in Threads : spc[a] \in XWaitPcs
    THEN CHOOSE a \in Threads : spc[a] \in XWaitPcs
    ELSE 0

\* the thread is not inside a call of the outer atomic_mutex
Ready(t) == mpc[t] = "idle"

\* shared_lock_inner: one compare_exchange_weak(lk, lk + WAITER) with lk the
\* expected value; on failure lk becomes the value read and `if (lk & X)
\* return false'.  The result is "ok", "fail" or "retry"; a spurious failure
\* of the weak exchange leaves lk and the word as they are and is a retry.
\* variant: any failed exchange returns false (no test of lk & X)
SharedCasResultNoRetry(w, lk) == IF w = lk THEN "ok" ELSE "fail"
\* variant: a failed exchange always retries (X is ignored)
SharedCasResultIgnoreX(w, lk) == IF w = lk THEN "ok" ELSE "retry"
SharedCasResult(w, lk) ==
  IF w = lk THEN "ok" ELSE IF HasX(w) THEN "fail" ELSE "retry"
SharedCasValue(w, lk) == IF w = lk THEN FetchAdd(w, WAITER) ELSE w

\* atomic_shared_mutex::try_lock_shared, first exchange (lk = 0)
TryLockShared(t) ==
  /\ spc[t] = "idle" /\ Ready(t)
  /\ inner' = SharedCasValue(inner, 0)
  /\ spc' = [spc EXCEPT ![t] =
         CASE SharedCasResult(inner, 0) = "ok" -> "S"
           [] SharedCasResult(inner, 0) = "fail" -> "idle"
           [] OTHER -> "ts_cas"]
  /\ slk' = [slk EXCEPT ![t] = IF SharedCasResult(inner, 0) = "retry" THEN inner ELSE 0]
  /\ UNCHANGED <<mvars, cvars, test, elided, tvars, wpri, iwakes>>

\* atomic_shared_mutex::lock_shared, first exchange (lk = 0); on failure
\* shared_lock_wait() is entered
LockShared(t) ==
  /\ spc[t] = "idle" /\ Ready(t)
  /\ inner' = SharedCasValue(inner, 0)
  /\ spc' = [spc EXCEPT ![t] =
         CASE SharedCasResult(inner, 0) = "ok" -> "S"
           [] SharedCasResult(inner, 0) = "fail" -> "slw_outer"
           [] OTHER -> "ls_cas"]
  /\ slk' = [slk EXCEPT ![t] = IF SharedCasResult(inner, 0) = "retry" THEN inner ELSE 0]
  /\ UNCHANGED <<mvars, cvars, test, elided, tvars, iwakes>>
  /\ wpri' = [wpri EXCEPT ![t] = XWaiter]

\* a further exchange of the loop of shared_lock_inner, in try_lock_shared
\* (ts_cas) or lock_shared (ls_cas)
SharedCas(t) ==
  /\ spc[t] \in {"ts_cas", "ls_cas"}
  /\ inner' = SharedCasValue(inner, slk[t])
  /\ spc' = [spc EXCEPT ![t] =
         CASE SharedCasResult(inner, slk[t]) = "ok" -> "S"
           [] SharedCasResult(inner, slk[t]) = "fail" ->
                IF spc[t] = "ts_cas" THEN "idle" ELSE "slw_outer"
           [] OTHER -> spc[t]]
  /\ slk' = [slk EXCEPT ![t] =
         IF SharedCasResult(inner, slk[t]) = "retry" THEN inner ELSE 0]
  /\ UNCHANGED <<mvars, cvars, test, elided, tvars, wpri, iwakes>>

\* shared_lock_wait: storage.lock_outer()
SharedLockWaitOuter(t) ==
  /\ spc[t] = "slw_outer"
  /\ Lock(t)
  /\ spc' = [spc EXCEPT ![t] = "slw_locking"]
  /\ UNCHANGED <<inner, slk>>
  /\ UNCHANGED <<cvars, test, elided, tvars, wpri, iwakes>>

\* shared_lock_wait: acquired = storage.shared_lock_inner(), holding outer
SharedLockWaitCas(t) ==
  /\ spc[t] \in {"slw_locking", "slw_cas"}
  /\ mpc[t] = "held"
  /\ inner' = SharedCasValue(inner, slk[t])
  /\ spc' = [spc EXCEPT ![t] =
         CASE SharedCasResult(inner, slk[t]) = "ok" -> "slw_acquired"
           [] SharedCasResult(inner, slk[t]) = "fail" -> "slw_failed"
           [] OTHER -> "slw_cas"]
  /\ slk' = [slk EXCEPT ![t] =
         IF SharedCasResult(inner, slk[t]) = "retry" THEN inner ELSE 0]
  /\ UNCHANGED <<mvars, cvars, test, elided, tvars, wpri, iwakes>>

\* shared_lock_wait: storage.unlock_outer(); while (!acquired)
SharedLockWaitUnlock(t) ==
  /\ spc[t] \in {"slw_acquired", "slw_failed"}
  /\ Unlock(t)
  /\ spc' = [spc EXCEPT ![t] = IF spc[t] = "slw_acquired" THEN "S" ELSE "slw_outer"]
  /\ UNCHANGED <<inner, slk>>
  /\ UNCHANGED <<cvars, test, elided, tvars, wpri, iwakes>>

\* shared_unlock_inner's verdict on the fetched value: lk == X + WAITER
\* variant: the verdict is `X is set' whatever the count of S holders
SharedUnlockNotifyAnyX(lk) == HasX(lk)
SharedUnlockNotify(lk) == lk = X + WAITER

\* atomic_shared_mutex::unlock_shared: shared_unlock_inner()
UnlockShared(t) ==
  /\ spc[t] = "S" /\ Ready(t)
  /\ inner' = FetchSub(inner, WAITER)
  /\ spc' = [spc EXCEPT ![t] = IF SharedUnlockNotify(inner) THEN "s_notify" ELSE "idle"]
  /\ UNCHANGED slk
  /\ UNCHANGED <<mvars, cvars, test, elided, tvars, wpri>>
  /\ iwakes' = IF SharedUnlockNotify(inner) THEN iwakes + 1 ELSE iwakes

\* shared_unlock_inner_notify: wake at most one sleeper on inner
SharedUnlockInnerNotify(t) ==
  /\ spc[t] = "s_notify"
  /\ \/ \E s \in Threads :
          /\ spc[s] = "x_asleep"
          /\ spc' = [spc EXCEPT ![t] = "idle", ![s] = "x_load"]
     \/ /\ \A s \in Threads : spc[s] # "x_asleep"
        /\ spc' = [spc EXCEPT ![t] = "idle"]
  /\ UNCHANGED <<inner, slk>>
  /\ UNCHANGED <<mvars, cvars, test, elided, tvars, wpri, iwakes>>

\* atomic_shared_mutex::lock_update: storage.lock_outer()
LockUpdate(t) ==
  /\ spc[t] = "idle"
  /\ Lock(t)
  /\ spc' = [spc EXCEPT ![t] = "u_outer"]
  /\ UNCHANGED <<inner, slk>>
  /\ UNCHANGED <<cvars, test, elided, tvars, wpri, iwakes>>

\* atomic_shared_mutex::try_lock_update: storage.outer.try_lock()
TryLockUpdate(t) ==
  /\ spc[t] = "idle"
  /\ TryLock(t)
  /\ spc' = [spc EXCEPT ![t] = IF LockImplOk(m) THEN "u_outer" ELSE "idle"]
  /\ UNCHANGED <<inner, slk>>
  /\ UNCHANGED <<cvars, test, elided, tvars, wpri, iwakes>>

\* a lock_update() that returns without the fetch_add on inner
UpdateLockInnerNoAdd(t) ==
  /\ spc[t] = "u_outer"
  /\ mpc[t] = "held"
  /\ spc' = [spc EXCEPT ![t] = "U"]
  /\ UNCHANGED <<inner, slk>>
  /\ UNCHANGED <<mvars, cvars, test, elided, tvars, wpri, iwakes>>

\* shared_acquire / update_lock_inner: inner.fetch_add(WAITER), holding outer
UpdateLockInner(t) ==
  /\ spc[t] = "u_outer"
  /\ mpc[t] = "held"
  /\ inner' = FetchAdd(inner, WAITER)
  /\ spc' = [spc EXCEPT ![t] = "U"]
  /\ UNCHANGED slk
  /\ UNCHANGED <<mvars, cvars, test, elided, tvars, wpri, iwakes>>

\* atomic_shared_mutex::lock: storage.lock_outer()
LockExclusive(t) ==
  /\ spc[t] = "idle"
  /\ Lock(t)
  /\ spc' = [spc EXCEPT ![t] = "x_outer"]
  /\ UNCHANGED <<inner, slk>>
  /\ UNCHANGED <<cvars, test, elided, tvars, wpri, iwakes>>

\* atomic_shared_mutex::try_lock: storage.outer.try_lock()
TryLockExclusive(t) ==
  /\ spc[t] = "idle"
  /\ TryLock(t)
  /\ spc' = [spc EXCEPT ![t] = IF LockImplOk(m) THEN "x_outer" ELSE "idle"]
  /\ UNCHANGED <<inner, slk>>
  /\ UNCHANGED <<cvars, test, elided, tvars, wpri, iwakes>>

\* shared_mutex_storage::lock_inner: fetch_add(X) on x86, else fetch_or(X)
LockInnerValue(w) == IF X86 THEN FetchAdd(w, X) ELSE OrX(w)

\* lock_inner_wait(lk): lk |= X, then wait; position after `lk' was computed
\* or loaded: done when lk == X
\* variant: the loop ends as soon as X is seen, whatever the count
InnerWaitPcAnyX(lk) == IF HasX(lk) THEN "X" ELSE "x_wait"
InnerWaitPc(lk) == IF lk = X THEN "X" ELSE "x_wait"

\* atomic_shared_mutex::lock_inner: if (auto lk = storage.lock_inner())
\* storage.lock_inner_wait(lk)
LockInner(t) ==
  /\ spc[t] = "x_outer"
  /\ mpc[t] = "held"
  /\ inner' = LockInnerValue(inner)
  /\ spc' = [spc EXCEPT ![t] = IF inner = 0 THEN "X" ELSE "x_wait"]
  /\ slk' = [slk EXCEPT ![t] = IF inner = 0 THEN 0 ELSE OrX(inner)]
  /\ UNCHANGED <<mvars, cvars, test, elided, tvars, wpri>>
  /\ iwakes' = 0

\* update_lock_upgrade_inner: inner.fetch_add(X - WAITER) - WAITER;
\* update_lock_upgrade: if (lk) storage.lock_inner_wait(lk)
UpdateLockUpgrade(t) ==
  /\ spc[t] = "U"
  /\ mpc[t] = "held"
  /\ inner' = FetchAdd(inner, X - WAITER)
  /\ LET lk == FetchSub(inner, WAITER)
     IN /\ spc' = [spc EXCEPT ![t] = IF lk = 0 THEN "X" ELSE "x_wait"]
        /\ slk' = [slk EXCEPT ![t] = IF lk = 0 THEN 0 ELSE OrX(lk)]
  /\ UNCHANGED <<mvars, cvars, test, elided, tvars, wpri>>
  /\ iwakes' = 0

\* lock_inner_wait: futex_wait(&inner, lk) sleeps only if inner == lk
LockInnerWaitWait(t) ==
  /\ spc[t] = "x_wait"
  /\ spc' = [spc EXCEPT ![t] = IF inner = slk[t] THEN "x_asleep" ELSE "x_load"]
  /\ UNCHANGED <<inner, slk>>
  /\ UNCHANGED <<mvars, cvars, test, elided, tvars, wpri, iwakes>>

\* the futex wait on inner returns without a wake
InnerSpuriousWake(t) ==
  /\ spc[t] = "x_asleep"
  /\ spc' = [spc EXCEPT ![t] = "x_load"]
  /\ UNCHANGED <<inner, slk>>
  /\ UNCHANGED <<mvars, cvars, test, elided, tvars, wpri, iwakes>>

\* lock_inner_wait: lk = inner.load(acquire); while (lk != X)
LockInnerWaitLoad(t) ==
  /\ spc[t] = "x_load"
  /\ spc' = [spc EXCEPT ![t] = InnerWaitPc(inner)]
  /\ slk' = [slk EXCEPT ![t] = IF inner = X THEN 0 ELSE inner]
  /\ UNCHANGED inner
  /\ UNCHANGED <<mvars, cvars, test, elided, tvars, wpri, iwakes>>

\* an update_lock_downgrade() that returns without the store to inner
UpdateLockDowngradeNoStore(t) ==
  /\ spc[t] = "X"
  /\ spc' = [spc EXCEPT ![t] = "U"]
  /\ UNCHANGED <<inner, slk>>
  /\ UNCHANGED <<mvars, cvars, test, elided, tvars, wpri, iwakes>>

\* atomic_shared_mutex::update_lock_downgrade: inner.store(WAITER)
UpdateLockDowngrade(t) ==
  /\ spc[t] = "X"
  /\ inner' = WAITER
  /\ spc' = [spc EXCEPT ![t] = "U"]
  /\ UNCHANGED slk
  /\ UNCHANGED <<mvars, cvars, test, elided, tvars, wpri, iwakes>>

\* atomic_shared_mutex::unlock_update: update_unlock_inner()
UnlockUpdate(t) ==
  /\ spc[t] = "U"
  /\ inner' = FetchSub(inner, WAITER)
  /\ spc' = [spc EXCEPT ![t] = "unlock_outer"]
  /\ UNCHANGED slk
  /\ UNCHANGED <<mvars, cvars, test, elided, tvars, wpri, iwakes>>

\* an unlock() that goes on to unlock_outer() without the store to inner
UnlockExclusiveNoStore(t) ==
  /\ spc[t] = "X"
  /\ spc' = [spc EXCEPT ![t] = "unlock_outer"]
  /\ UNCHANGED <<inner, slk>>
  /\ UNCHANGED <<mvars, cvars, test, elided, tvars, wpri, iwakes>>

\* atomic_shared_mutex::unlock: unlock_inner(), inner.store(0)
UnlockExclusive(t) ==
  /\ spc[t] = "X"
  /\ inner' = 0
  /\ spc' = [spc EXCEPT ![t] = "unlock_outer"]
  /\ UNCHANGED slk
  /\ UNCHANGED <<mvars, cvars, test, elided, tvars, wpri, iwakes>>

\* unlock_update / unlock: storage.unlock_outer()
UnlockOuter(t) ==
  /\ spc[t] = "unlock_outer"
  /\ Unlock(t)
  /\ spc' = [spc EXCEPT ![t] = "idle"]
  /\ UNCHANGED <<inner, slk>>
  /\ UNCHANGED <<cvars, test, elided, tvars, iwakes>>
  /\ wpri' = [u \in Threads |-> IF wpri[u] = t THEN 0 ELSE wpri[u]]

\* ------------------------------ test_shared_mutex: the threads of the test
NextSux ==
  \E t \in Threads :
    \/ TryLockShared(t)
    \/ LockShared(t)
    \/ SharedCas(t)
    \/ SharedLockWaitOuter(t)
    \/ SharedLockWaitCas(t)
    \/ SharedLockWaitUnlock(t)
    \/ UnlockShared(t)
    \/ SharedUnlockInnerNotify(t)
    \/ LockUpdate(t)
    \/ TryLockUpdate(t)
    \/ UpdateLockInner(t)
    \/ LockExclusive(t)
    \/ TryLockExclusive(t)
    \/ LockInner(t)
    \/ UpdateLockUpgrade(t)
    \/ LockInnerWaitWait(t)
    \/ InnerSpuriousWake(t)
    \/ LockInnerWaitLoad(t)
    \/ UpdateLockDowngrade(t)
    \/ UnlockUpdate(t)
    \/ UnlockExclusive(t)
    \/ UnlockOuter(t)
    \/ LockWaitAdd(t)
    \/ LockWaitWait(t)
    \/ SpuriousWake(t)
    \/ LockWaitReload(t)
    \/ LockWaitOr(t)
    \/ UnlockNotifyOne(t)

InitSux == Init /\ test = "sux"

SpecSux == InitSux /\ [][NextSux]_vars

\* test_shared_mutex with thread 1 taking X only through update_lock_upgrade()
\* (its third loop): thread 1 never starts lock() or try_lock(); the other
\* threads run every operation
NextUpgrade ==
  \E t \in Threads :
    \/ TryLockShared(t)
    \/ LockShared(t)
    \/ SharedCas(t)
    \/ SharedLockWaitOuter(t)
    \/ SharedLockWaitCas(t)
    \/ SharedLockWaitUnlock(t)
    \/ UnlockShared(t)
    \/ SharedUnlockInnerNotify(t)
    \/ LockUpdate(t)
    \/ TryLockUpdate(t)
    \/ UpdateLockInner(t)
    \/ t # 1 /\ LockExclusive(t)
    \/ t # 1 /\ TryLockExclusive(t)
    \/ LockInner(t)
    \/ UpdateLockUpgrade(t)
    \/ LockInnerWaitWait(t)
    \/ InnerSpuriousWake(t)
    \/ LockInnerWaitLoad(t)
    \/ UpdateLockDowngrade(t)
    \/ UnlockUpdate(t)
    \/ UnlockExclusive(t)
    \/ UnlockOuter(t)
    \/ LockWaitAdd(t)
    \/ LockWaitWait(t)
    \/ SpuriousWake(t)
    \/ LockWaitReload(t)
    \/ LockWaitOr(t)
    \/ UnlockNotifyOne(t)

SpecUpgrade == InitSux /\ [][NextUpgrade]_vars

\* ---------------------------------------------- transactional lock guards
\* shared_mutex_storage::is_locked(): the inner word is exactly X
IsLocked == inner = X

\* shared_mutex_storage::is_locked_or_waiting(): the word of `outer' is
\* non-zero (mutex_storage::is_locked_or_waiting()), or is_locked()
IsLockedOrWaiting == m # 0 \/ IsLocked

\* the test a guard constructor makes inside the transaction it has begun, in
\* a build with elision (NO_ELISION not defined): was_elided() of the
\* exclusive guard, !m.is_locked() of the shared guard, and was_elided() of
\* the update guard, which in this build is `return false'
WasElided(kind) ==
  CASE kind = "x" -> ~IsLockedOrWaiting
    [] kind = "s" -> ~IsLocked
    [] kind = "u" -> FALSE

\* constructor of a guard of flavour kind ("x": transactional_lock_guard,
\* "s": transactional_shared_lock_guard, "u": transactional_update_lock_guard)
\* whose xbegin() returned true: it returns inside the transaction when the
\* test passes, else xabort() rolls the transaction back and the constructor
\* calls lock() / lock_shared() / lock_update()
TransactionalGuard(t, kind) ==
  /\ spc[t] = "idle"
  /\ elided[t] = "none"
  /\ IF WasElided(kind)
     THEN /\ elided' = [elided EXCEPT ![t] = kind]
          /\ UNCHANGED <<mvars, cvars, svars, test, tvars>>
     ELSE CASE kind = "x" -> LockExclusive(t)
            [] kind = "s" -> LockShared(t)
            [] kind = "u" -> LockUpdate(t)

\* destructor of an elided guard: was_elided() holds and xend() commits the
\* transaction. The lock words the constructor tested are in the read set
\* of the transaction, so it can still be running only while they pass the
\* same test.
GuardEnd(t) ==
  /\ elided[t] # "none"
  /\ WasElided(elided[t])
  /\ elided' = [elided EXCEPT ![t] = "none"]
  /\ UNCHANGED <<mvars, cvars, svars, test, tvars>>

\* a transaction aborts (a write by another thread to a word it has read, or
\* any other cause the hardware has): execution resumes at xbegin(), which
\* now returns false, and the constructor goes on to take the lock
GuardAbort(t) ==
  /\ elided[t] # "none"
  /\ elided' = [elided EXCEPT ![t] = "none"]
  /\ UNCHANGED <<mvars, cvars, svars, test, tvars>>

\* test_shared_mutex in a build with elision: every section is entered
\* through a guard; a thread inside an elided guard makes no call before
\* the guard is destroyed
NextGuard ==
  \E t \in Threads :
    \/ \E kind \in {"x", "s", "u"} : TransactionalGuard(t, kind)
    \/ GuardEnd(t)
    \/ GuardAbort(t)
    \/ elided[t] = "none" /\ TryLockShared(t)
    \/ elided[t] = "none" /\ LockShared(t)
    \/ elided[t] = "none" /\ SharedCas(t)
    \/ elided[t] = "none" /\ SharedLockWaitOuter(t)
    \/ elided[t] = "none" /\ SharedLockWaitCas(t)
    \/ elided[t] = "none" /\ SharedLockWaitUnlock(t)
    \/ elided[t] = "none" /\ UnlockShared(t)
    \/ elided[t] = "none" /\ SharedUnlockInnerNotify(t)
    \/ elided[t] = "none" /\ LockUpdate(t)
    \/ elided[t] = "none" /\ TryLockUpdate(t)
    \/ elided[t] = "none" /\ UpdateLockInner(t)
    \/ elided[t] = "none" /\ LockExclusive(t)
    \/ elided[t] = "none" /\ TryLockExclusive(t)
    \/ elided[t] = "none" /\ LockInner(t)
    \/ elided[t] = "none" /\ UpdateLockUpgrade(t)
    \/ elided[t] = "none" /\ LockInnerWaitWait(t)
    \/ elided[t] = "none" /\ InnerSpuriousWake(t)
    \/ elided[t] = "none" /\ LockInnerWaitLoad(t)
    \/ elided[t] = "none" /\ UpdateLockDowngrade(t)
    \/ elided[t] = "none" /\ UnlockUpdate(t)
    \/ elided[t] = "none" /\ UnlockExclusive(t)
    \/ elided[t] = "none" /\ UnlockOuter(t)
    \/ elided[t] = "none" /\ LockWaitAdd(t)
    \/ elided[t] = "none" /\ LockWaitWait(t)
    \/ elided[t] = "none" /\ SpuriousWake(t)
    \/ elided[t] = "none" /\ LockWaitReload(t)
    \/ elided[t] = "none" /\ LockWaitOr(t)
    \/ elided[t] = "none" /\ UnlockNotifyOne(t)

SpecGuard == InitSux /\ [][NextGuard]_vars

\* ------------------------------------------- main(): one of the two tests
NextTests ==
  \/ test = "mutex" /\ Next
  \/ test = "sux" /\ NextSux

SpecTests == Init /\ [][NextTests]_vars

\* ------------------------------------------------ atomic_condition_variable
\* The word of the condition variable is kept with 2 * CvHalfBits bits: the
\* split-event variant counts waiters in the low half and events in the high
\* half (EVENT = 1U << 16 in the source), the pure-counter variant uses the
\* whole word.
EVENT == 2^CvHalfBits
CvModulus == 2^(2 * CvHalfBits)

\* main() runs the signalling side, the other threads are the waiters
Main == 1
Waiters == Threads \ {Main}
NWaiters == NThreads - 1

\* atomic_condition_variable::is_waiting on the word w
IsWaiting(w) == IF cvkind = "event" THEN w % EVENT # 0 ELSE w # 0

\* a signal() / broadcast() that resets the word in either variant
SignalValueReset(w) == 0

\* the word left by the read-modify-write of signal() / broadcast():
\* exchange(0) or fetch_add(EVENT)
SignalValue(w) == IF cvkind = "event" THEN (w + EVENT) % CvModulus ELSE 0

\* a signal() / broadcast() that notifies whatever it fetched
SignalNotifiesAlways(w) == TRUE

\* a signal() / broadcast() that never notifies
SignalNotifiesNever(w) == FALSE

\* whether signal() / broadcast() goes on to notify, given the fetched word
SignalNotifies(w) == IF cvkind = "event" THEN w % EVENT # 0 ELSE w # 0

\* a signal() or broadcast() is between its read-modify-write and its notify
WakePending == kpc[Main] \in {"g_notify_one", "m_notify_all"}

\* the position after the wait on the word has returned: the split-event
\* variant executes fetch_sub(1) before it locks again
AfterWaitPc == IF cvkind = "event" THEN "k_sub" ELSE "start"

\* the thread is outside every call of the mutex and of the SuxMutex
Out(t) == mpc[t] = "idle" /\ spc[t] = "idle"

\* the thread holds the lock its test uses: a waiter holds m, or S on sux;
\* main holds m, or X on sux
Holding(t) ==
  IF test = "cv_shared"
    THEN spc[t] = (IF t = Main THEN "X" ELSE "S")
    ELSE mpc[t] = "held"

\* lock_guard g{m}, m.lock() at the end of wait(), and main's lock of m
KLock(t) ==
  /\ test \in {"cv", "cv_signal"}
  /\ kpc[t] \in {"start", "m_start", "g_start"}
  /\ kpc[t] = "g_start" => sigs < NWaiters
  /\ spc[t] = "idle"
  /\ Lock(t)
  /\ UNCHANGED <<cvars, svars, test, elided, tvars>>

\* m.unlock() inside wait(), at the end of the lock_guard's scope, and main's
KUnlock(t) ==
  /\ test \in {"cv", "cv_signal"}
  /\ kpc[t] \in {"k_unlock", "exit", "m_unlock_b", "m_unlock_n", "g_unlock"}
  /\ Unlock(t)
  /\ UNCHANGED <<cvars, svars, test, elided, tvars>>

\* shared lock_guard g{sux}, and sux.lock_shared() at the end of wait_shared()
KLockShared(t) ==
  /\ test = "cv_shared"
  /\ kpc[t] = "start"
  /\ LockShared(t)

\* sux.unlock_shared() inside wait_shared() and at the end of the guard's scope
KUnlockShared(t) ==
  /\ test = "cv_shared"
  /\ kpc[t] \in {"k_unlock", "exit"}
  /\ UnlockShared(t)

\* main: lock_guard g{sux}, sux.lock()
KLockExclusive(t) ==
  /\ test = "cv_shared"
  /\ kpc[t] = "m_start"
  /\ LockExclusive(t)

\* main: sux.unlock() at the end of the guard's scope
KUnlockExclusive(t) ==
  /\ test = "cv_shared"
  /\ kpc[t] \in {"m_unlock_b", "m_unlock_n"}
  /\ UnlockExclusive(t)

\* test_condition_variable, test_shared_condition_variable, under the lock:
\* if (critical) return; while (!critical) cv.wait(m)
KCheck(t) ==
  /\ test # "cv_signal"
  /\ kpc[t] = "start"
  /\ Holding(t)
  /\ kpc' = [kpc EXCEPT ![t] = IF critical THEN "exit" ELSE "k_add"]
  /\ UNCHANGED <<cv, kval, critical, pending, sigs, waits, cvkind, unreleased>>
  /\ UNCHANGED <<mvars, cvars, svars, test, elided, rvars>>

\* a waiter of the signal protocol, under m:
\* while (pending == 0) cv.wait(m); pending--
GCheck(t) ==
  /\ test = "cv_signal"
  /\ kpc[t] = "start"
  /\ Holding(t)
  /\ pending' = (IF pending > 0 THEN pending - 1 ELSE pending)
  /\ kpc' = [kpc EXCEPT ![t] = IF pending > 0 THEN "exit" ELSE "k_add"]
  /\ UNCHANGED <<cv, kval, critical, sigs, waits, cvkind, unreleased>>
  /\ UNCHANGED <<mvars, cvars, svars, test, elided, rvars>>

\* wait / wait_shared: const uint32_t val = fetch_add(1, acquire)
KAdd(t) ==
  /\ kpc[t] = "k_add"
  /\ waits < MaxWaits
  /\ cv' = (cv + 1) % CvModulus
  /\ kval' = [kval EXCEPT ![t] = (cv + 1) % CvModulus]
  /\ kpc' = [kpc EXCEPT ![t] = "k_unlock"]
  /\ waits' = waits + 1
  /\ unreleased' = unreleased \cup {t}
  /\ UNCHANGED <<critical, pending, sigs, cvkind>>
  /\ UNCHANGED <<mvars, cvars, svars, test, elided, rvars>>

\* wait / wait_shared: wait(1 + val), after the unlock has returned
KWait(t) ==
  /\ kpc[t] = "k_unlock"
  /\ Out(t)
  /\ kpc' = [kpc EXCEPT ![t] = IF cv = kval[t] THEN "k_asleep" ELSE AfterWaitPc]
  /\ UNCHANGED unreleased
  /\ UNCHANGED <<cv, kval, critical, pending, sigs, waits, cvkind>>
  /\ UNCHANGED <<mvars, cvars, svars, test, elided, rvars>>

\* the wait on the word returns without a wake
KSpuriousWake(t) ==
  /\ kpc[t] = "k_asleep"
  /\ kpc' = [kpc EXCEPT ![t] = AfterWaitPc]
  /\ unreleased' = IF WakePending THEN unreleased \ {t} ELSE unreleased
  /\ UNCHANGED <<cv, kval, critical, pending, sigs, waits, cvkind>>
  /\ UNCHANGED <<mvars, cvars, svars, test, elided, rvars>>

\* split-event wait / wait_shared: fetch_sub(1, relaxed)
KSub(t) ==
  /\ kpc[t] = "k_sub"
  /\ cv' = (cv - 1 + CvModulus) % CvModulus
  /\ kpc' = [kpc EXCEPT ![t] = "start"]
  /\ kval' = [kval EXCEPT ![t] = 0]
  /\ UNCHANGED <<critical, pending, sigs, waits, cvkind, unreleased>>
  /\ UNCHANGED <<mvars, cvars, svars, test, elided, rvars>>

\* main, under the lock: critical = true; is_waiting = cv.is_waiting()
MainSet(t) ==
  /\ kpc[t] = "m_start"
  /\ Holding(t)
  /\ critical' = TRUE
  /\ kpc' = [kpc EXCEPT ![t] = IF IsWaiting(cv) THEN "m_unlock_b" ELSE "m_unlock_n"]
  /\ UNCHANGED <<cv, kval, pending, sigs, waits, cvkind, unreleased>>
  /\ UNCHANGED <<mvars, cvars, svars, test, elided, rvars>>

\* main: if (is_waiting) cv.broadcast(): the exchange(0) / fetch_add(EVENT)
KBroadcast(t) ==
  /\ kpc[t] = "m_unlock_b"
  /\ Out(t)
  /\ cv' = SignalValue(cv)
  /\ kpc' = [kpc EXCEPT ![t] = IF SignalNotifies(cv) THEN "m_notify_all" ELSE "m_join"]
  /\ unreleased' = IF SignalNotifies(cv) THEN {} ELSE unreleased
  /\ UNCHANGED <<kval, critical, pending, sigs, waits, cvkind>>
  /\ UNCHANGED <<mvars, cvars, svars, test, elided, rvars>>

\* a broadcast() whose notify wakes at most one thread asleep on the word
KNotifyAllWakesOne(t) ==
  /\ kpc[t] = "m_notify_all"
  /\ \/ \E s \in Threads :
          /\ kpc[s] = "k_asleep"
          /\ kpc' = [kpc EXCEPT ![t] = "m_join", ![s] = AfterWaitPc]
     \/ /\ \A s \in Threads : kpc[s] # "k_asleep"
        /\ kpc' = [kpc EXCEPT ![t] = "m_join"]
  /\ UNCHANGED <<cv, kval, critical, pending, sigs, waits, cvkind, unreleased>>
  /\ UNCHANGED <<mvars, cvars, svars, test, elided, rvars>>

\* broadcast: notify_all() wakes every thread asleep on the word
KNotifyAll(t) ==
  /\ kpc[t] = "m_notify_all"
  /\ kpc' = [u \in Threads |->
       IF u = t THEN "m_join" ELSE IF kpc[u] = "k_asleep" THEN AfterWaitPc ELSE kpc[u]]
  /\ UNCHANGED <<cv, kval, critical, pending, sigs, waits, cvkind, unreleased>>
  /\ UNCHANGED <<mvars, cvars, svars, test, elided, rvars>>

\* the signalling thread, under m: pending++
GInc(t) ==
  /\ kpc[t] = "g_start"
  /\ mpc[t] = "held"
  /\ pending' = pending + 1
  /\ sigs' = sigs + 1
  /\ kpc' = [kpc EXCEPT ![t] = "g_unlock"]
  /\ UNCHANGED <<cv, kval, critical, waits, cvkind, unreleased>>
  /\ UNCHANGED <<mvars, cvars, svars, test, elided, rvars>>

\* cv.signal(): the exchange(0) / fetch_add(EVENT)
KSignal(t) ==
  /\ kpc[t] = "g_unlock"
  /\ Out(t)
  /\ cv' = SignalValue(cv)
  /\ kpc' = [kpc EXCEPT ![t] = IF SignalNotifies(cv) THEN "g_notify_one" ELSE "g_start"]
  /\ unreleased' =
       IF SignalNotifies(cv) THEN {u \in unreleased : kpc[u] = "k_asleep"} ELSE unreleased
  /\ UNCHANGED <<kval, critical, pending, sigs, waits, cvkind>>
  /\ UNCHANGED <<mvars, cvars, svars, test, elided, rvars>>

\* signal: notify_one() wakes at most one thread asleep on the word
KNotifyOne(t) ==
  /\ kpc[t] = "g_notify_one"
  /\ \/ \E s \in Threads :
          /\ kpc[s] = "k_asleep"
          /\ kpc' = [kpc EXCEPT ![t] = "g_start", ![s] = AfterWaitPc]
          /\ unreleased' = unreleased \ {s}
     \/ /\ \A s \in Threads : kpc[s] # "k_asleep"
        /\ kpc' = [kpc EXCEPT ![t] = "g_start"]
        /\ UNCHANGED unreleased
  /\ UNCHANGED <<cv, kval, critical, pending, sigs, waits, cvkind>>
  /\ UNCHANGED <<mvars, cvars, svars, test, elided, rvars>>

\* a waiter thread has returned from its test function
Done(t) == kpc[t] = "done" \/ (kpc[t] = "exit" /\ Out(t))

\* main: t[i].join() for every waiter, then the end of the round
MainJoin(t) ==
  /\ \/ kpc[t] = "m_join"
     \/ kpc[t] = "m_unlock_n" /\ Out(t)
     \/ kpc[t] = "g_start" /\ Out(t) /\ sigs = NWaiters
  /\ \A w \in Waiters : Done(w)
  /\ kpc' = [kpc EXCEPT ![t] = "done"]
  /\ UNCHANGED <<cv, kval, critical, pending, sigs, waits, cvkind, unreleased>>
  /\ UNCHANGED <<mvars, cvars, svars, test, elided, rvars>>

\* the broadcast test and the signal test on a Mutex
NextCv ==
  \E t \in Threads :
    \/ KLock(t)
    \/ KUnlock(t)
    \/ KCheck(t)
    \/ GCheck(t)
    \/ KAdd(t)
    \/ KWait(t)
    \/ KSpuriousWake(t)
    \/ KSub(t)
    \/ MainSet(t)
    \/ KBroadcast(t)
    \/ KNotifyAll(t)
    \/ GInc(t)
    \/ KSignal(t)
    \/ KNotifyOne(t)
    \/ MainJoin(t)
    \/ LockWaitAdd(t)
    \/ LockWaitWait(t)
    \/ SpuriousWake(t)
    \/ LockWaitReload(t)
    \/ LockWaitOr(t)
    \/ UnlockNotifyOne(t)

\* the state at the start of a round of a condition variable test: main is
\* about to take the lock, the threads in W are about to run the test
\* function, no other thread takes part
KStart(W) ==
  /\ cv = 0
  /\ kpc = [t \in Threads |-> IF t = Main THEN (IF test = "cv_signal" THEN "g_start" ELSE "m_start")
                              ELSE IF t \in W THEN "start" ELSE "done"]
  /\ kval = [t \in Threads |-> 0]
  /\ critical = FALSE
  /\ pending = 0
  /\ sigs = (IF test = "cv_signal" THEN NWaiters - Cardinality(W) ELSE 0)
  /\ waits = 0
  /\ cvkind \in {"counter", "event"}
  /\ unreleased = {}

\* the broadcast test on a SuxMutex: the waiters hold S and call
\* wait_shared(), main holds X
NextCvShared ==
  \E t \in Threads :
    \/ KLockShared(t)
    \/ KUnlockShared(t)
    \/ KLockExclusive(t)
    \/ KUnlockExclusive(t)
    \/ KCheck(t)
    \/ KAdd(t)
    \/ KWait(t)
    \/ KSpuriousWake(t)
    \/ KSub(t)
    \/ MainSet(t)
    \/ KBroadcast(t)
    \/ KNotifyAll(t)
    \/ MainJoin(t)
    \/ SharedCas(t)
    \/ SharedLockWaitOuter(t)
    \/ SharedLockWaitCas(t)
    \/ SharedLockWaitUnlock(t)
    \/ SharedUnlockInnerNotify(t)
    \/ LockInner(t)
    \/ LockInnerWaitWait(t)
    \/ InnerSpuriousWake(t)
    \/ LockInnerWaitLoad(t)
    \/ UnlockOuter(t)
    \/ LockWaitAdd(t)
    \/ LockWaitWait(t)
    \/ SpuriousWake(t)
    \/ LockWaitReload(t)
    \/ LockWaitOr(t)
    \/ UnlockNotifyOne(t)

\* main() of the condition variable test: a round on m or a round on sux
NextCvTests ==
  \/ test \in {"cv", "cv_signal"} /\ NextCv
  \/ test = "cv_shared" /\ NextCvShared

InitCvTests ==
  /\ InitLocks
  /\ test \in {"cv", "cv_signal", "cv_shared"}
  /\ KStart(Waiters)

SpecCvTests == InitCvTests /\ [][NextCvTests]_vars

\* -------------------------------------------- atomic_recursive_shared_mutex
\* `recursive' counts the X locks in its low half and the U locks in its high
\* half.  The tests recurse to the depth MaxDepth at most.
RECURSIVE_X == 1
RECURSIVE_U == 2^16

\* the unit of `recursive' for an update lock (U) or an exclusive lock
RecUnit(U) == IF U THEN RECURSIVE_U ELSE RECURSIVE_X

\* a mask of 15 bits in place of RECURSIVE_MAX
RecCountNarrow(r, U) == (r \div RecUnit(U)) % (RECURSIVE_U \div 2)

\* (recursive / (U ? RECURSIVE_U : RECURSIVE_X)) & RECURSIVE_MAX
RecCount(r, U) == (r \div RecUnit(U)) % RECURSIVE_U

\* a lock() / lock_update() that never takes the re-entrant path
IsWriterNever(t) == FALSE

\* writer.load(relaxed) == std::this_thread::get_id()
IsWriter(t) == writer = t

\* an unlock that never finds itself the last one
LastUnlockNever(r, U) == FALSE

\* update_or_lock_unlock: !(recursive -= U ? RECURSIVE_U : RECURSIVE_X)
LastUnlock(r, U) == r - RecUnit(U) = 0

\* the thread that holds the underlying lock outside every call, 0 if none
RecHolder ==
  IF \E h \in Threads : spc[h] \in {"U", "X"} /\ rpc[h] = "idle"
    THEN CHOOSE h \in Threads : spc[h] \in {"U", "X"} /\ rpc[h] = "idle"
    ELSE 0

\* a function over the threads after the thread t has taken over the lock
\* that RecHolder acquired: the underlying lock does not record its holder
TakeOver(f, t, none) ==
  IF RecHolder \in {0, t} THEN f
  ELSE [f EXCEPT ![t] = f[RecHolder], ![RecHolder] = none]

\* lock() (U false) and lock_update() (U true): the re-entrant path is
\* writer_recurse<U>(), otherwise the call goes on to super::lock().  The
\* test makes at most MaxCS calls that acquire the underlying lock in U or X.
RLock(t, U) ==
  /\ test = "rec"
  /\ rpc[t] = "idle"
  /\ writer = t \/ spc[t] = "idle"
  /\ IF IsWriter(t)
       THEN /\ IF U THEN recursive # 0 ELSE RecCount(recursive, U) # 0
            /\ RecCount(recursive, U) < RECURSIVE_U - 1
            /\ RecCount(recursive, U) < MaxDepth
            /\ recursive' = recursive + RecUnit(U)
            /\ mixed' = (mixed \/ (U /\ RecCount(recursive, FALSE) # 0))
            /\ UNCHANGED rpc
            /\ UNCHANGED ncs
       ELSE /\ ncs < MaxCS
            /\ ncs' = ncs + 1
            /\ rpc' = [rpc EXCEPT ![t] = IF U THEN "u_acq" ELSE "x_acq"]
            /\ UNCHANGED <<recursive, mixed>>
  /\ UNCHANGED writer
  /\ UNCHANGED <<mvars, n, tmp, cpc, svars, test, elided, kvars>>

\* lock_disowned() and lock_update_disowned(), called by a thread that is
\* not the writer
RLockDisowned(t, U) ==
  /\ test = "rec"
  /\ rpc[t] = "idle"
  /\ spc[t] = "idle"
  /\ ~IsWriter(t)
  /\ ncs < MaxCS
  /\ ncs' = ncs + 1
  /\ rpc' = [rpc EXCEPT ![t] = IF U THEN "ud_acq" ELSE "xd_acq"]
  /\ UNCHANGED <<recursive, writer, mixed>>
  /\ UNCHANGED <<mvars, n, tmp, cpc, svars, test, elided, kvars>>

\* a disowned call that records the calling thread as the writer
OwnerAfterAlways(pc, t) == t

\* the writer after the acquire: lock(), lock_update() and the acquiring
\* path of lock_upgraded() end with set_holder(id), the disowned calls and
\* the conversions leave the writer as it is
OwnerAfter(pc, t) == IF pc \in {"x_acq", "u_acq", "lu_acq"} THEN t ELSE writer

\* super::lock() / super::lock_update() / super::update_lock_upgrade() /
\* super::update_lock_downgrade() inside the calls of the recursive mutex
RSuperLock(t) ==
  \/ rpc[t] \in {"x_acq", "xd_acq", "lu_acq"} /\ LockExclusive(t)
  \/ rpc[t] \in {"u_acq", "ud_acq"} /\ LockUpdate(t)
  \/ rpc[t] \in {"upg", "lu_upg"} /\ UpdateLockUpgrade(t)
  \/ rpc[t] = "dng" /\ UpdateLockDowngrade(t)

\* an upgrade that leaves `recursive' as it is
UpgradedKeep(r) == r

\* an upgrade that counts one X lock whatever the number of U locks
UpgradedOne(r) == RECURSIVE_X

\* update_lock_upgrade: recursive /= RECURSIVE_U
Upgraded(r) == r \div RECURSIVE_U

\* after the super:: call returned.  An acquire: recursive = RECURSIVE_X
\* (RECURSIVE_U), and set_holder(id) unless the call is a disowned one.  An
\* upgrade: recursive /= RECURSIVE_U.  A downgrade: nothing more.
\* lock_upgraded() then returns true after an upgrade, false after an acquire.
RAcquired(t) ==
  /\ \/ rpc[t] \in {"x_acq", "xd_acq", "lu_acq", "upg", "lu_upg"} /\ spc[t] = "X"
     \/ rpc[t] \in {"u_acq", "ud_acq", "dng"} /\ spc[t] = "U"
  /\ recursive' = CASE rpc[t] \in {"upg", "lu_upg"} -> Upgraded(recursive)
                   [] rpc[t] = "dng" -> recursive
                   [] OTHER -> RecUnit(rpc[t] \in {"u_acq", "ud_acq"})
  /\ writer' = OwnerAfter(rpc[t], t)
  /\ rpc' = [rpc EXCEPT ![t] = CASE rpc[t] = "lu_upg" -> "ret_true"
                                  [] rpc[t] = "lu_acq" -> "ret_false"
                                  [] OTHER -> "idle"]
  /\ UNCHANGED <<mixed, mvars, cvars, svars, test, elided, kvars>>

\* update_lock_upgrade(): assert(holding_lock_update()), then
\* super::update_lock_upgrade() and recursive /= RECURSIVE_U.  The call is
\* made with the underlying lock in U mode.
RUpdateLockUpgrade(t) ==
  /\ test = "rec"
  /\ rpc[t] = "idle"
  /\ IsWriter(t)
  /\ RecCount(recursive, FALSE) = 0
  /\ spc[t] = "U"
  /\ rpc' = [rpc EXCEPT ![t] = "upg"]
  /\ UNCHANGED <<recursive, writer, mixed>>
  /\ UNCHANGED <<mvars, cvars, svars, test, elided, kvars>>

\* update_lock_downgrade(): assert(holding_lock()),
\* assert(recursive <= RECURSIVE_MAX), recursive *= RECURSIVE_U, then
\* super::update_lock_downgrade()
RUpdateLockDowngrade(t) ==
  /\ test = "rec"
  /\ rpc[t] = "idle"
  /\ IsWriter(t)
  /\ RecCount(recursive, FALSE) # 0
  /\ recursive <= RECURSIVE_U - 1
  /\ recursive' = recursive * RECURSIVE_U
  /\ rpc' = [rpc EXCEPT ![t] = "dng"]
  /\ UNCHANGED <<writer, mixed>>
  /\ UNCHANGED <<mvars, cvars, svars, test, elided, kvars>>

\* lock_upgraded(): the writer with no X lock counted upgrades
\* (update_lock_upgrade(), return true); the writer with X locks counted
\* recurses (writer_recurse<false>(), return false); any other thread
\* acquires as lock() does (return false)
RLockUpgraded(t) ==
  /\ test = "rec"
  /\ rpc[t] = "idle"
  /\ IF IsWriter(t)
       THEN IF recursive % RECURSIVE_U = 0
              THEN /\ spc[t] = "U"
                   /\ rpc' = [rpc EXCEPT ![t] = "lu_upg"]
                   /\ UNCHANGED <<recursive, ncs>>
              ELSE /\ RecCount(recursive, FALSE) < RECURSIVE_U - 1
                   /\ RecCount(recursive, FALSE) < MaxDepth
                   /\ recursive' = recursive + RECURSIVE_X
                   /\ rpc' = [rpc EXCEPT ![t] = "ret_false"]
                   /\ UNCHANGED ncs
       ELSE /\ spc[t] = "idle"
            /\ ncs < MaxCS
            /\ ncs' = ncs + 1
            /\ rpc' = [rpc EXCEPT ![t] = "lu_acq"]
            /\ UNCHANGED recursive
  /\ UNCHANGED <<writer, mixed>>
  /\ UNCHANGED <<mvars, n, tmp, cpc, svars, test, elided, kvars>>

\* set_holder(): the calling thread becomes the writer of a lock that was
\* acquired disowned
RSetHolder(t) ==
  /\ test = "rec"
  /\ rpc[t] = "idle"
  /\ writer = 0 /\ RecHolder # 0
  /\ RecHolder = t \/ spc[t] = "idle"
  /\ writer' = t
  /\ spc' = TakeOver(spc, t, "idle")
  /\ mpc' = TakeOver(mpc, t, "idle")
  /\ wpri' = [u \in Threads |-> IF wpri[u] = RecHolder THEN t ELSE wpri[u]]
  /\ UNCHANGED <<recursive, rpc, mixed, m, mlk, mspin, inner, slk, iwakes>>
  /\ UNCHANGED <<cvars, test, elided, kvars>>

\* set_holder(std::thread::id{}): the writer disowns the lock it holds
RSetHolderNone(t) ==
  /\ test = "rec"
  /\ rpc[t] = "idle"
  /\ IsWriter(t)
  /\ writer' = 0
  /\ UNCHANGED <<recursive, rpc, mixed>>
  /\ UNCHANGED <<mvars, cvars, svars, test, elided, kvars>>

\* unlock() (U false) and unlock_update() (U true), update_or_lock_unlock<U>:
\* called by the writer, or by any thread when the lock is disowned and held
\* once; the last unlock clears the writer and goes on to super::unlock()
RUnlock(t, U) ==
  /\ test = "rec"
  /\ rpc[t] = "idle"
  /\ \/ writer = t
     \/ /\ writer = 0 /\ recursive = RecUnit(U) /\ RecHolder # 0
        /\ RecHolder = t \/ spc[t] = "idle"
  /\ RecCount(recursive, U) # 0
  /\ recursive' = recursive - RecUnit(U)
  /\ IF LastUnlock(recursive, U)
       THEN /\ writer' = 0
            /\ rpc' = [rpc EXCEPT ![t] = IF U THEN "rel_u" ELSE "rel_x"]
       ELSE UNCHANGED <<writer, rpc>>
  /\ spc' = TakeOver(spc, t, "idle")
  /\ mpc' = TakeOver(mpc, t, "idle")
  /\ wpri' = [u \in Threads |->
       IF RecHolder # 0 /\ wpri[u] = RecHolder THEN t ELSE wpri[u]]
  /\ UNCHANGED <<mixed, m, mlk, mspin, inner, slk, iwakes>>
  /\ UNCHANGED <<cvars, test, elided, kvars>>

\* super::unlock() / super::unlock_update() of the last unlock: inner.store(0)
\* or inner.fetch_sub(WAITER), whatever mode the underlying lock is held in;
\* storage.unlock_outer() follows
RSuperUnlock(t) ==
  /\ rpc[t] \in {"rel_x", "rel_u"}
  /\ spc[t] \in {"U", "X"}
  /\ inner' = IF rpc[t] = "rel_x" THEN 0 ELSE FetchSub(inner, WAITER)
  /\ spc' = [spc EXCEPT ![t] = "unlock_outer"]
  /\ UNCHANGED slk
  /\ UNCHANGED <<mvars, cvars, test, elided, tvars, wpri, iwakes>>

\* the last unlock returns once the underlying unlock has returned;
\* lock_upgraded() returns its result
RReturn(t) ==
  /\ \/ rpc[t] \in {"rel_x", "rel_u"} /\ Out(t)
     \/ rpc[t] \in {"ret_true", "ret_false"}
  /\ rpc' = [rpc EXCEPT ![t] = "idle"]
  /\ UNCHANGED <<recursive, writer, mixed>>
  /\ UNCHANGED <<mvars, cvars, svars, test, elided, kvars>>

\* lock_shared() { super::lock_shared(); }  Thread 1 of the test takes no
\* shared lock: two readers (with NThreads = 3) are enough to make an
\* upgrade wait for several S holders.
RLockShared(t) ==
  /\ t >= 2
  /\ test = "rec"
  /\ rpc[t] = "idle"
  /\ LockShared(t)

\* unlock_shared() { super::unlock_shared(); }
RUnlockShared(t) ==
  /\ test = "rec"
  /\ rpc[t] = "idle"
  /\ UnlockShared(t)

NextRec ==
  \E t \in Threads :
    \/ \E U \in BOOLEAN : RLock(t, U)
    \/ \E U \in BOOLEAN : RLockDisowned(t, U)
    \/ RSuperLock(t)
    \/ RAcquired(t)
    \/ RUpdateLockUpgrade(t)
    \/ RUpdateLockDowngrade(t)
    \/ RLockUpgraded(t)
    \/ RSetHolder(t)
    \/ RSetHolderNone(t)
    \/ \E U \in BOOLEAN : RUnlock(t, U)
    \/ RSuperUnlock(t)
    \/ RReturn(t)
    \/ RLockShared(t)
    \/ RUnlockShared(t)
    \/ SharedCas(t)
    \/ SharedLockWaitOuter(t)
    \/ SharedLockWaitCas(t)
    \/ SharedLockWaitUnlock(t)
    \/ SharedUnlockInnerNotify(t)
    \/ UpdateLockInner(t)
    \/ LockInner(t)
    \/ LockInnerWaitWait(t)
    \/ InnerSpuriousWake(t)
    \/ LockInnerWaitLoad(t)
    \/ UnlockOuter(t)
    \/ LockWaitAdd(t)
    \/ LockWaitWait(t)
    \/ SpuriousWake(t)
    \/ LockWaitReload(t)
    \/ LockWaitOr(t)
    \/ UnlockNotifyOne(t)

\* test_recursive_shared_mutex on the zero-initialized recursive_sux
InitRec ==
  /\ InitLocks
  /\ test = "rec"
  /\ KIdle

SpecRec == InitRec /\ [][NextRec]_vars

\* ------------------------------------------------ the limit of recursion
\* Here `recursive' runs over all of uint32_t.  The checker's integers end
\* at 2^31 - 1, so a value v >= 2^31 is held as v - 2^32 (the same 32 bits
\* read as two's complement): \div and % round down, so RecCount gives the
\* unsigned halves of either form, and += wraps from 2^31 - 1 to -2^31.
\* lock_recursive() (U false) and lock_update_recursive() (U true):
\* writer_recurse<U>() with its assertions, called by the writer
RLockRecursive(t, U) ==
  /\ test = "rec_limit"
  /\ rpc[t] = "idle"
  /\ IsWriter(t)
  /\ IF U THEN recursive # 0 ELSE RecCount(recursive, U) # 0
  /\ RecCount(recursive, U) < RECURSIVE_U - 1
  /\ ncs < MaxCS
  /\ ncs' = ncs + 1
  /\ recursive' = IF recursive > 2147483647 - RecUnit(U)
                    THEN (recursive - 2147483647 - 1)
                           + (RecUnit(U) - 2147483647 - 1)
                    ELSE recursive + RecUnit(U)
  /\ mixed' = (mixed \/ (U /\ RecCount(recursive, FALSE) # 0))
  /\ UNCHANGED <<writer, rpc>>
  /\ UNCHANGED <<mvars, n, tmp, cpc, svars, test, elided, kvars>>

\* thread 1 is the writer and has taken x exclusive locks and u update locks
\* (lock() or lock_update() first, then re-entrant calls) on the unheld,
\* uncontended lock: the underlying lock is in X mode when x > 0, else in U
\* mode, and the outer mutex is held by thread 1.  The depths x and u are
\* drawn around 0, 2^15 and 2^16.
InitRecLimit ==
  /\ test = "rec_limit"
  /\ KIdle
  /\ \E x, u \in {0, 1, 2, 32766, 32767, 32768, 65533, 65534, 65535} :
       /\ x + u > 0
       /\ recursive = (IF u < 32768 THEN u ELSE u - 65536) * RECURSIVE_U
                       + x * RECURSIVE_X
       /\ inner = IF x > 0 THEN X ELSE WAITER
       /\ spc = [t \in Threads |->
            IF t # 1 THEN "idle" ELSE IF x > 0 THEN "X" ELSE "U"]
       /\ mixed = (x > 0 /\ u > 0)
  /\ writer = 1
  /\ rpc = [t \in Threads |-> "idle"]
  /\ m = HOLDER + WAITER
  /\ mpc = [t \in Threads |-> IF t = 1 THEN "held" ELSE "idle"]
  /\ mlk = [t \in Threads |-> 0]
  /\ mspin = [t \in Threads |-> 0]
  /\ n = 0
  /\ ncs = 0
  /\ tmp = [t \in Threads |-> 0]
  /\ cpc = [t \in Threads |-> "out"]
  /\ slk = [t \in Threads |-> 0]
  /\ wpri = [t \in Threads |-> 0]
  /\ iwakes = 0
  /\ elided = [t \in Threads |-> "none"]

NextRecLimit == \E t \in Threads : \E U \in BOOLEAN : RLockRecursive(t, U)

SpecRecLimit == InitRecLimit /\ [][NextRecLimit]_vars

\* ---------------------------------------------------------------- fairness
\* A thread that is inside a call, inside the critical section or holding a
\* lock keeps running: the scheduler eventually lets it take its next step.
\* Nothing obliges a thread to start a new acquire, and nothing obliges the
\* wait facility to return spuriously.
MutexProgress(t) ==
  \/ LockWaitAdd(t)
  \/ LockWaitWait(t)
  \/ LockWaitReload(t)
  \/ LockWaitOr(t)
  \/ SpinLockWaitAdd(t)
  \/ SpinLoad(t)
  \/ SpinOr(t)
  \/ UnlockNotifyOne(t)

TestMutexProgress(t) ==
  \/ MutexProgress(t)
  \/ CsRead(t)
  \/ CsWrite(t)
  \/ CallUnlock(t)

FairSpec == Spec /\ \A t \in Threads : WF_vars(TestMutexProgress(t))

SuxProgress(t) ==
  \/ MutexProgress(t)
  \/ SharedCas(t)
  \/ SharedLockWaitOuter(t)
  \/ SharedLockWaitCas(t)
  \/ SharedLockWaitUnlock(t)
  \/ UnlockShared(t)
  \/ SharedUnlockInnerNotify(t)
  \/ UpdateLockInner(t)
  \/ LockInner(t)
  \/ LockInnerWaitWait(t)
  \/ LockInnerWaitLoad(t)
  \/ UnlockUpdate(t)
  \/ UnlockExclusive(t)
  \/ UnlockOuter(t)

FairSpecSux == SpecSux /\ \A t \in Threads : WF_vars(SuxProgress(t))

\* The threads of the condition variable tests run their test function to
\* its end: each of their steps is eventually taken, the lock and unlock
\* calls included.  The wait on the word is not obliged to return spuriously.
CvProgress(t) ==
  \/ KLock(t)
  \/ KUnlock(t)
  \/ KCheck(t)
  \/ GCheck(t)
  \/ KAdd(t)
  \/ KWait(t)
  \/ KSub(t)
  \/ MainSet(t)
  \/ KBroadcast(t)
  \/ KNotifyAll(t)
  \/ GInc(t)
  \/ KSignal(t)
  \/ KNotifyOne(t)
  \/ MainJoin(t)
  \/ LockWaitAdd(t)
  \/ LockWaitWait(t)
  \/ LockWaitReload(t)
  \/ LockWaitOr(t)
  \/ UnlockNotifyOne(t)
  \/ KLockShared(t)
  \/ KUnlockShared(t)
  \/ KLockExclusive(t)
  \/ KUnlockExclusive(t)
  \/ SharedCas(t)
  \/ SharedLockWaitOuter(t)
  \/ SharedLockWaitCas(t)
  \/ SharedLockWaitUnlock(t)
  \/ SharedUnlockInnerNotify(t)
  \/ LockInner(t)
  \/ LockInnerWaitWait(t)
  \/ LockInnerWaitLoad(t)
  \/ UnlockOuter(t)

FairSpecCvTests == SpecCvTests /\ \A t \in Threads : WF_vars(CvProgress(t))

\* a round with a single waiter thread
InitCvOne ==
  /\ InitLocks
  /\ test \in {"cv", "cv_signal"}
  /\ KStart({NThreads})

FairSpecCvOne ==
  /\ InitCvOne
  /\ [][NextCv]_vars
  /\ \A t \in Threads : WF_vars(CvProgress(t))

\* ------------------------------------------------------------------ claims
\* threads between a successful acquire of the mutex and the fetch_sub of
\* the matching unlock()
Holders == {t \in Threads : mpc[t] = "held"}
\* threads that executed the fetch_add(WAITER) of lock_wait / spin_lock_wait
\* and have not acquired yet
Registered == {t \in Threads : mpc[t] \in RegisteredPcs}
\* threads that called lock() / spin_lock() and have not returned yet
Acquiring == {t \in Threads : mpc[t] \in AcquirePcs}
\* no thread is inside any call or critical section
Quiescent ==
  \A t \in Threads : mpc[t] = "idle" /\ cpc[t] = "out" /\ spc[t] = "idle"

\* holders of the SuxMutex by mode: the acquire has returned and the release
\* has not been called
HoldS == {t \in Threads : spc[t] = "S"}
HoldU == {t \in Threads : spc[t] = "U"}
HoldX == {t \in Threads : spc[t] = "X"}

\* C1: Mutex mutual exclusion.  At most one thread is between a successful
\* acquire (lock, spin_lock or try_lock) and its unlock, and whenever no
\* thread is inside its critical section the counter that is incremented
\* (read, then written) only inside critical sections equals the number of
\* critical sections executed.
C1_MutualExclusion ==
  /\ Cardinality(Holders) <= 1
  /\ (\A t \in Threads : cpc[t] = "out" /\ mpc[t] # "held") => n = ncs

\* C1 witness: two critical sections were counted, a thread holds the mutex
\* and another one sleeps in the futex wait of lock_wait.
C1_Witness ==
  /\ n >= 2
  /\ \E t, u \in Threads : mpc[t] = "held" /\ mpc[u] = "lw_asleep"

\* C2: S-X and X-X exclusion.  While a thread holds X (lock(), try_lock() or
\* update_lock_upgrade() has returned, unlock() or the downgrade was not
\* called) no other thread holds S, U or X, and inner equals X.
C2_ExclusiveExcludesAll ==
  \A t \in HoldX :
    /\ inner = X
    /\ \A u \in Threads \ {t} : spc[u] \notin {"S", "U", "X"}

\* C2 witness: a thread holds X while a reader that met X sleeps on the outer
\* mutex inside shared_lock_wait.
C2_Witness ==
  \E t, u \in Threads :
    /\ spc[t] = "X"
    /\ spc[u] = "slw_locking"
    /\ mpc[u] = "lw_asleep"

\* positions at which a thread holds, or is converting between, U and X
UpdateOrExclusivePcs == {"U", "X", "x_wait", "x_asleep", "x_load"}

\* C3: U-U exclusion.  At most one thread holds the lock in U or X mode
\* (including a thread inside update_lock_upgrade or lock_inner_wait), and
\* such a thread holds the outer mutex.
C3_UpdateExclusion ==
  /\ Cardinality({t \in Threads : spc[t] \in UpdateOrExclusivePcs}) <= 1
  /\ \A t \in Threads : spc[t] \in UpdateOrExclusivePcs => mpc[t] = "held"

\* C3 witness: a thread holds U while another one, inside lock_update() or
\* lock(), sleeps on the outer mutex.
C3_Witness ==
  \E t, u \in Threads :
    /\ spc[t] = "U"
    /\ spc[u] \in {"u_outer", "x_outer"}
    /\ mpc[u] = "lw_asleep"

\* C4: S-U compatibility.  Every exchange of the fast path of lock_shared()
\* or try_lock_shared() executed while another thread holds U and X is clear
\* either acquires S (inner grows by one) or, when inner had changed since it
\* was read, re-reads inner and retries; it never fails, never enters
\* shared_lock_wait and leaves the outer mutex untouched.
C4_SharedCompatibleWithUpdate ==
  [][\A t \in Threads :
       ( /\ TryLockShared(t) \/ LockShared(t) \/ SharedCas(t)
         /\ HoldU # {}
         /\ ~HasX(inner) )
       => /\ spc'[t] \in {"S", "ts_cas", "ls_cas"}
          /\ UNCHANGED mvars
          /\ spc'[t] = "S" => inner' = inner + WAITER
          /\ spc'[t] # "S" => inner' = inner /\ slk'[t] = inner
    ]_vars

\* C4 witness: one thread holds U while two others hold S.
C4_Witness ==
  /\ Cardinality(HoldU) = 1
  /\ Cardinality(HoldS) >= 2
  /\ ~HasX(inner)

\* C5: writer priority.  A thread whose lock_shared() started while another
\* thread was waiting in lock_inner_wait (X set, outer held) has not returned
\* as long as that thread has not released the outer mutex in unlock() or
\* unlock_update(): it is inside shared_lock_wait without the outer mutex.
C5_WriterPriority ==
  \A b \in Threads :
    wpri[b] # 0 =>
      /\ spc[b] # "S"
      /\ spc[b] \in {"slw_outer", "slw_locking"}
      /\ mpc[b] # "held"
      /\ mpc[wpri[b]] = "held"
      /\ spc[wpri[b]] \in XWaitPcs \cup {"X", "U", "unlock_outer"}

\* C5 witness: the writer has acquired X and is about to release the outer
\* mutex while the reader that arrived during its wait sleeps on it.
C5_Witness ==
  \E b \in Threads :
    /\ wpri[b] # 0
    /\ spc[wpri[b]] = "unlock_outer"
    /\ spc[b] = "slw_locking"
    /\ mpc[b] = "lw_asleep"

\* the state a lost wake-up would leave: HOLDER clear, every registered
\* thread asleep in the futex wait, and no notify_one() about to be called
LostWakeup ==
  /\ ~HasHolder(m)
  /\ Registered # {}
  /\ \A t \in Registered : mpc[t] = "lw_asleep"
  /\ \A t \in Threads : mpc[t] # "notify"

\* C6: no lost wake-up.  No reachable state is a lost wake-up, and under weak
\* fairness of the running threads (every holder eventually unlocks),
\* whenever some thread is inside lock()/spin_lock() and no thread holds the
\* mutex, some thread eventually holds it.
C6_NoLostWakeup ==
  /\ []~LostWakeup
  /\ (Acquiring # {} /\ Holders = {}) ~> (Holders # {})

\* C6 witness: HOLDER is clear and a registered thread is asleep while the
\* wake of the unlock that cleared HOLDER is still pending.
C6_Witness ==
  /\ ~HasHolder(m)
  /\ \E t, u \in Threads : mpc[t] = "lw_asleep" /\ mpc[u] = "notify"

\* C7: the exclusive waiter is woken by the last reader.  unlock_shared()
\* decides to wake on inner exactly when the value it fetched was X + 1, and
\* then a thread is waiting in lock_inner_wait; at most one such wake is
\* decided after each setting of X; and under weak fairness (readers
\* eventually call unlock_shared()) a thread waiting in lock_inner_wait
\* eventually holds X.
C7_LastReaderWakes ==
  /\ [](iwakes <= 1)
  /\ [][\A t \in Threads :
          UnlockShared(t) =>
            /\ (spc'[t] = "s_notify") <=> (inner = X + WAITER)
            /\ (spc'[t] = "s_notify") => XWaiter # 0
       ]_vars
  /\ \A t \in Threads : (spc[t] \in XWaitPcs) ~> (spc[t] = "X")

\* C7 witness: the last reader is about to wake the exclusive waiter, which
\* sleeps on inner.
C7_Witness ==
  \E t, a \in Threads :
    /\ spc[t] = "s_notify"
    /\ spc[a] = "x_asleep"
    /\ inner = X
    /\ iwakes = 1

\* C8: wake economy.  unlock() calls notify_one() exactly when the word
\* fetched by its fetch_sub differs from HOLDER + WAITER, which is exactly
\* when some other thread is registered in the acquire path.
C8_WakeEconomy ==
  [][\A t \in Threads :
       CallUnlock(t) =>
         /\ (mpc'[t] = "notify") <=> (m # HOLDER + WAITER)
         /\ (mpc'[t] = "notify") <=> (Registered # {})
         /\ mpc'[t] \in {"notify", "idle"}
    ]_vars

\* C8 witness: an unlock() is about to call notify_one() while another thread
\* sleeps in the futex wait.
C8_Witness ==
  \E t, u \in Threads : mpc[t] = "notify" /\ mpc[u] = "lw_asleep"

\* C9: quiescent state.  When no thread is inside a call or holds a lock,
\* the Mutex word is 0 and, for the SuxMutex, inner and the word of outer are
\* both 0 (is_locked_or_waiting() is false).
C9_QuiescentZero == Quiescent => m = 0 /\ inner = 0

\* C9 witness: all threads are out again after a run of the SuxMutex test in
\* which a reader had to wake an exclusive waiter.
C9_Witness == Quiescent /\ test = "sux" /\ iwakes = 1

\* C10 as stated: the word is 0 exactly when no thread holds the mutex and
\* no thread has called lock()/spin_lock() without having returned.
C10_Original == (m = 0) <=> (Holders = {} /\ Acquiring = {})

\* C10 amended: the word is 0 exactly when no thread holds the mutex and no
\* thread is registered, that is, has executed the fetch_add(WAITER) of
\* lock_wait / spin_lock_wait without having acquired yet.
C10_ZeroIffUnregistered == (m = 0) <=> (Holders = {} /\ Registered = {})

\* C10 witness: the word is 0 while a thread whose lock_impl() failed has not
\* yet registered.
C10_Witness == m = 0 /\ \E t \in Threads : mpc[t] \in {"lw_add", "sp_add"}

\* threads counted in the low bits of the word: the holder and the threads
\* that registered (either build) and have not acquired yet
Counted ==
  {t \in Threads : mpc[t] = "held" \/ mpc[t] \in RegisteredPcs \cup LinuxRegisteredPcs}

\* C11: waiter accounting.  On both builds, HOLDER set implies a count of at
\* least one, and the bits below HOLDER equal the number of threads that hold
\* the mutex or have registered in lock_wait / spin_lock_wait and not yet
\* acquired: every thread is counted exactly once, through the spin phase,
\* the move to the wait phase and every re-wait.
C11_WaiterAccounting ==
  /\ HasHolder(m) => LowBits(m) >= 1
  /\ LowBits(m) = Cardinality(Counted)

\* C11 witness: on the Linux build a holder and two registered threads are
\* counted, one asleep and one about to repeat its exchange after a wait.
C11_Witness ==
  /\ test = "mutex_linux"
  /\ m = HOLDER + 3
  /\ \E t, u \in Threads : mpc[t] = "lw_asleep" /\ mpc[u] = "lx_cas"

\* C12: try_lock() is one compare-exchange from 0 to HOLDER + WAITER.  It
\* makes the caller the holder exactly when the word was 0; otherwise the
\* word, the locals and the position of every thread are left as they were
\* (no waiter is registered, the caller is not in the acquire path), also
\* when the word is non-zero with HOLDER clear.
C12_TryLockFrame ==
  [][\A t \in Threads :
       CallTryLock(t) =>
         /\ (mpc'[t] = "held") <=> (m = 0)
         /\ m = 0 => m' = HOLDER + WAITER
         /\ m # 0 => UNCHANGED mvars
         /\ mpc'[t] \in {"held", "idle"}
    ]_vars

\* C12 witness: the word is non-zero with HOLDER clear (a registered thread
\* has not yet set it) while another thread is free to call try_lock().
C12_Witness ==
  /\ m # 0
  /\ ~HasHolder(m)
  /\ ncs < MaxCS
  /\ \E t, u \in Threads :
       /\ mpc[t] = "idle" /\ cpc[t] = "out"
       /\ mpc[u] = "lw_or"

\* C13: signal() and broadcast() go on to the notify (the OS wake) only if
\* is_waiting() held on the word their read-modify-write fetched; otherwise
\* they return without a wake, in the pure-counter and the split-event variant.
C13_NoWakeWithoutWaiter ==
  [][\A t \in Threads :
       ((KSignal(t) \/ KBroadcast(t)) /\ ~IsWaiting(cv))
         => kpc'[t] \notin {"g_notify_one", "m_notify_all"}]_vars

\* a signal() has run on a word nobody had registered on, in either variant
C13_Witness ==
  /\ test = "cv_signal"
  /\ kpc[Main] = "g_start"
  /\ sigs = 1
  /\ waits = 0
  /\ cv = SignalValue(0)

\* C14: pure-counter variant: is_waiting() is true if and only if some thread
\* has executed the increment of wait() and has not yet been released by a
\* signal() or broadcast() (stated outside the window between the exchange
\* and the notify of a signal() or broadcast() in progress).
C14_Original ==
  (cvkind = "counter" /\ ~WakePending) => (IsWaiting(cv) <=> unreleased # {})

\* the threads between the fetch_add(1) of wait() and the end of the wait:
\* in the split-event variant, up to the fetch_sub(1)
InWindow == {t \in Threads : kpc[t] \in {"k_unlock", "k_asleep", "k_sub"}}

C17_Original ==
  (test = "cv_signal" /\ cvkind = "counter")
    => <>((\A w \in Waiters : Done(w)) \/ waits = MaxWaits)

\* C18: the broadcast protocol, on a Mutex with wait() and on a SuxMutex with
\* wait_shared() and the signaller holding X: main sets critical and reads
\* is_waiting() under the lock and calls broadcast() only if it was true.
\* Once main is past that decision and every waiter has terminated,
\* is_waiting() is false; and (in the rounds that stay below MaxWaits calls
\* of wait) every waiter terminates and main reaches the end of the round.
C18_BroadcastProtocol ==
  /\ [](/\ test \in {"cv", "cv_shared"}
        /\ kpc[Main] \in {"m_join", "done"}
        /\ \A w \in Waiters : Done(w)
        => ~IsWaiting(cv))
  /\ (test \in {"cv", "cv_shared"}) =>
       \/ <>(waits = MaxWaits)
       \/ <>[](/\ \A w \in Waiters : Done(w)
               /\ kpc[Main] = "done"
               /\ ~IsWaiting(cv))

\* every waiter is asleep in wait_shared() when main's broadcast() is about
\* to notify
C18_Witness ==
  /\ test = "cv_shared"
  /\ kpc[Main] = "m_notify_all"
  /\ \A w \in Waiters : kpc[w] = "k_asleep"

\* C19: recursive X locking.  A lock() by the writer only adds one to
\* `recursive' and an unlock() that is not the last only subtracts one: both
\* leave the inner word, the outer mutex and the writer as they are, so only
\* the first lock() acquires and only the last unlock() releases the
\* underlying lock.  While X locks are counted exactly one thread holds X
\* and no thread holds S or U, and the writer is that thread or none.  When
\* every thread is outside every call and holds nothing (and no lock_update()
\* was mixed into the X locks), recursive = 0, the writer is none and the
\* underlying lock is unheld.
C19_RecursiveX ==
  /\ [](RecCount(recursive, FALSE) # 0 =>
          /\ Cardinality(HoldX) = 1 /\ HoldS = {} /\ HoldU = {}
          /\ writer # 0 => spc[writer] = "X")
  /\ []((~mixed /\ \A t \in Threads : rpc[t] = "idle" /\ Out(t)) =>
          recursive = 0 /\ writer = 0 /\ inner = 0 /\ m = 0)
  /\ [][\A t \in Threads :
          /\ (RLock(t, FALSE) /\ writer = t) =>
               /\ recursive' = recursive + RECURSIVE_X
               /\ UNCHANGED <<mvars, svars, writer, rpc>>
          /\ (RUnlock(t, FALSE) /\ writer = t /\ recursive > RECURSIVE_X) =>
               /\ recursive' = recursive - RECURSIVE_X
               /\ UNCHANGED <<mvars, svars, writer, rpc>>
          /\ (RUnlock(t, FALSE) /\ recursive = RECURSIVE_X) =>
               /\ recursive' = 0 /\ writer' = 0 /\ rpc'[t] = "rel_x"]_vars

\* the writer holds X three times while another thread sleeps in lock()
C19_Witness ==
  /\ recursive = 3 * RECURSIVE_X
  /\ writer # 0
  /\ \E u \in Threads : rpc[u] = "x_acq" /\ mpc[u] = "lw_asleep"

\* C20: ownership transfer.  When lock_disowned() or lock_update_disowned()
\* returns, the writer is none and `recursive' is one X or one U.  As long
\* as `recursive' is non-zero exactly one thread holds the underlying lock in
\* U or X mode (or is upgrading it from U to X), so no other thread acquires
\* U or X before the release.
\* set_holder() by another thread makes that thread the writer and changes
\* neither `recursive' nor the lock words; its unlock() / unlock_update()
\* then is the last one: recursive = 0, the writer is none, and once it has
\* returned and no thread holds anything the underlying lock is unheld (in
\* the runs without a re-entrant lock_update() while X is held).
C20_OwnershipTransfer ==
  /\ [](recursive # 0 =>
          Cardinality({t \in Threads : spc[t] \in {"U", "X"} \cup XWaitPcs}) = 1)
  /\ []((~mixed /\ \A t \in Threads : rpc[t] = "idle" /\ Out(t)) =>
          inner = 0 /\ m = 0 /\ recursive = 0 /\ writer = 0)
  /\ [][\A t \in Threads :
          /\ (RAcquired(t) /\ rpc[t] \in {"xd_acq", "ud_acq"}) =>
               /\ writer' = 0
               /\ recursive' = RecUnit(rpc[t] = "ud_acq")
          /\ RSetHolder(t) =>
               /\ writer' = t
               /\ spc'[t] \in {"U", "X"}
               /\ UNCHANGED <<recursive, inner, m>>
          /\ \A U \in BOOLEAN :
               (RUnlock(t, U) /\ recursive = RecUnit(U)) =>
                 /\ recursive' = 0 /\ writer' = 0
                 /\ rpc'[t] = (IF U THEN "rel_u" ELSE "rel_x")
                 /\ spc'[t] \in {"U", "X"}]_vars

\* a lock acquired with lock_update_disowned() is held with no writer while
\* another thread sleeps in its own lock() or lock_update()
C20_Witness ==
  /\ writer = 0
  /\ recursive = RECURSIVE_U
  /\ RecHolder # 0
  /\ \E u \in Threads : rpc[u] \in {"x_acq", "u_acq"} /\ mpc[u] = "lw_asleep"

\* C21: recursive pairing under mixed modes.  For one owner thread, lock()
\* and lock_update() calls followed by as many unlock() and unlock_update()
\* calls in any order pair up: the assertions of the last release hold
\* (update_unlock_inner finds the inner word non-zero and below X), the
\* underlying lock stays held while `recursive' is non-zero, and when every
\* thread is outside every call and holds nothing the inner word is 0, the
\* outer mutex is free, recursive = 0 and the writer is none.
C21_Original ==
  /\ \A t \in Threads :
       (rpc[t] = "rel_u" /\ spc[t] \in {"U", "X"}) =>
         (inner # 0 /\ ~HasX(inner))
  /\ recursive # 0 => \E t \in Threads : spc[t] \in {"U", "X"}
  /\ (\A t \in Threads : rpc[t] = "idle" /\ Out(t)) =>
       inner = 0 /\ m = 0 /\ recursive = 0 /\ writer = 0

\* C22 as stated: outside the calls of the recursive mutex, recursive # 0 if
\* and only if some thread holds the underlying lock in U or X mode, and if
\* and only if the writer is set, also after the disowned calls and after
\* set_holder(none).
C22_Original ==
  (\A t \in Threads : rpc[t] = "idle") =>
    /\ recursive # 0 <=> \E t \in Threads : spc[t] \in {"U", "X"}
    /\ recursive # 0 <=> writer # 0

\* C22: bookkeeping of the recursive mutex.  Whenever no thread is inside a
\* call of the recursive mutex, recursive # 0 if and only if some thread
\* holds the underlying lock in U or X mode.  A writer that is set implies
\* recursive # 0 and that the writer holds the underlying lock in U or X
\* mode or is upgrading it from U to X; the converse fails after the
\* disowned calls and set_holder(none), which leave recursive # 0 with no
\* writer.
C22_Bookkeeping ==
  /\ (\A t \in Threads : rpc[t] = "idle") =>
       (recursive # 0 <=> \E t \in Threads : spc[t] \in {"U", "X"})
  /\ writer # 0 =>
       /\ recursive # 0
       /\ spc[writer] \in {"U", "X"} \cup XWaitPcs
       /\ spc[writer] \in XWaitPcs => rpc[writer] \in {"upg", "lu_upg"}

\* the writer took X twice and then disowned the lock with set_holder(none)
C22_Witness ==
  /\ writer = 0
  /\ recursive = 2 * RECURSIVE_X
  /\ \A t \in Threads : rpc[t] = "idle"
  /\ RecHolder # 0

C27_XImpliesOuter ==
  /\ [](HasX(inner) =>
          /\ HasHolder(m)
          /\ \E t \in Threads :
               /\ spc[t] \in XWaitPcs \cup {"X"}
               /\ mpc[t] = "held"
               /\ \A u \in Threads \ {t} :
                    mpc[u] # "held" /\ spc[u] \notin XWaitPcs \cup {"X"})
  /\ [](\A t \in Threads : spc[t] = "unlock_outer" => ~HasX(inner))
  /\ [][\A t \in Threads :
          /\ (~HasX(inner) /\ HasX(inner') /\ spc'[t] # spc[t]) =>
               /\ mpc[t] = "held" /\ mpc'[t] = "held"
               /\ spc[t] \in {"x_outer", "U"}
               /\ spc'[t] \in XWaitPcs \cup {"X"}
          /\ UnlockOuter(t) => ~HasX(inner) /\ ~HasX(inner')]_vars

\* X was set while a reader held S: the thread that set X sleeps in
\* lock_inner_wait and another thread sleeps on the outer mutex
C27_Witness ==
  /\ test = "sux"
  /\ HasX(inner) /\ inner # X
  /\ \E t \in Threads : spc[t] = "x_asleep" /\ mpc[t] = "held"
  /\ \E u \in Threads : mpc[u] = "lw_asleep"

\* C28 as stated: in every reachable state of a SuxMutex, when the outer
\* mutex is held and the X bit is clear, the thread holding the outer mutex
\* is in update mode and has added 1 to the shared count of the inner word.
C28_Original ==
  (test = "sux" /\ HasHolder(m) /\ ~HasX(inner)) =>
     \E t \in Threads : mpc[t] = "held" /\ spc[t] = "U" /\ LowBits(inner) >= WAITER

\* C28: when the outer mutex is held and the X bit is clear, exactly one
\* thread holds the outer mutex and it is at one of these places: it holds U
\* and the inner word is 1 plus the number of readers; or it is between
\* lock_outer() and the update of inner in lock(), lock_update() or their
\* try_ variants; or it is between the release of inner and unlock_outer() in
\* unlock() or unlock_update(); or it is a reader inside shared_lock_wait().
\* In the last three cases the inner word is the number of readers alone.
\* Conversely a thread that holds U holds the outer mutex with X clear.
C28_OuterHeldXClear ==
  LET Readers == {r \in Threads : spc[r] \in {"S", "slw_acquired"}}
      InTransit == {"u_outer", "x_outer", "unlock_outer",
                    "slw_locking", "slw_cas", "slw_acquired", "slw_failed"}
  IN test = "sux" =>
       /\ (HasHolder(m) /\ ~HasX(inner)) =>
            \E t \in Threads :
              /\ mpc[t] = "held"
              /\ \A u \in Threads \ {t} : mpc[u] # "held"
              /\ \/ spc[t] = "U" /\ inner = WAITER + Cardinality(Readers)
                 \/ spc[t] \in InTransit /\ inner = Cardinality(Readers)
       /\ \A t \in Threads :
            spc[t] = "U" => mpc[t] = "held" /\ HasHolder(m) /\ ~HasX(inner)

\* a thread holds U and the outer mutex while two readers hold S
C28_Witness ==
  /\ test = "sux"
  /\ HasHolder(m) /\ ~HasX(inner)
  /\ \E t \in Threads : spc[t] = "U" /\ mpc[t] = "held"
  /\ inner = 3 * WAITER

\* C29 as stated: readers never set X and never touch the outer mutex: no
\* step of try_lock_shared(), lock_shared() or unlock_shared() sets the X bit
\* of the inner word or modifies the state word of the outer mutex.
C29_Original ==
  [][\A t \in Threads :
       (\/ TryLockShared(t) \/ LockShared(t) \/ SharedCas(t)
        \/ SharedLockWaitOuter(t) \/ SharedLockWaitCas(t)
        \/ SharedLockWaitUnlock(t)
        \/ UnlockShared(t) \/ SharedUnlockInnerNotify(t)) =>
          /\ HasX(inner') <=> HasX(inner)
          /\ m' = m]_vars

\* C29: no step of try_lock_shared(), lock_shared() or unlock_shared(),
\* the steps of lock_shared() inside the outer mutex included, changes the X
\* bit of the inner word.  try_lock_shared(), unlock_shared() and the
\* exchanges of shared_lock_inner() leave the outer mutex's word alone.
\* lock_shared() enters shared_lock_wait() only when shared_lock_inner() saw
\* X set; there it acquires the outer mutex (the word gains HOLDER), makes
\* its exchanges on inner holding it, and releases it again.
C29_ReadersAndOuter ==
  [][\A t \in Threads :
       /\ (\/ TryLockShared(t) \/ LockShared(t) \/ SharedCas(t)
           \/ SharedLockWaitCas(t)
           \/ UnlockShared(t) \/ SharedUnlockInnerNotify(t)) =>
             /\ HasX(inner') <=> HasX(inner)
             /\ m' = m /\ mpc' = mpc
       /\ (spc[t] \in {"slw_outer", "slw_locking", "slw_cas", "slw_acquired",
                       "slw_failed"} /\ mpc'[t] # mpc[t]) =>
             /\ inner' = inner
             /\ mpc[t] # "held" /\ mpc'[t] = "held" =>
                  ~HasHolder(m) /\ HasHolder(m')
             /\ mpc[t] = "held" =>
                  SharedLockWaitUnlock(t) /\ m' = UnlockImplValue(m) /\ m' # m
       /\ (spc[t] \in {"idle", "ls_cas", "slw_locking", "slw_cas"}
             /\ spc'[t] \in {"slw_outer", "slw_failed"}) => HasX(inner)]_vars

\* a reader inside shared_lock_wait() holds the outer mutex after its
\* exchange on inner succeeded, while another thread sleeps on the outer mutex
C29_Witness ==
  /\ test = "sux"
  /\ \E t \in Threads : spc[t] = "slw_acquired" /\ mpc[t] = "held"
  /\ \E u \in Threads : mpc[u] = "lw_asleep"

\* C30: the downgrade from X to U is one store that never waits: it is
\* enabled whenever X is held, leaves the inner word equal to WAITER (1) and
\* the outer mutex held by the caller.  While the downgrader holds U, a
\* reader inside shared_lock_wait() stays outside the outer mutex, without
\* its S lock; it acquires the outer mutex only from a state where no
\* thread holds the outer mutex or U or X, that is, after the unlock_outer()
\* of unlock_update().  A
\* lock_shared() or try_lock_shared() that runs while the downgrader holds U
\* stays on the fast path: it never fails and never enters shared_lock_wait(),
\* its first exchange reloads the word and an exchange whose expected value
\* is the current word acquires S.
C30_Downgrade ==
  /\ [](test = "sux" =>
          \A t \in Threads :
            spc[t] = "X" =>
              mpc[t] = "held" /\ inner = X /\ ENABLED UpdateLockDowngrade(t))
  /\ [][\A t \in Threads :
          UpdateLockDowngrade(t) =>
            /\ inner' = WAITER /\ spc'[t] = "U"
            /\ m' = m /\ HasHolder(m') /\ mpc' = mpc /\ mpc'[t] = "held"]_vars
  /\ [](\A d \in Threads :
          spc[d] = "U" =>
            \A r \in Threads \ {d} :
              spc[r] \in {"slw_outer", "slw_locking", "slw_cas",
                         "slw_acquired", "slw_failed"} =>
                spc[r] \in {"slw_outer", "slw_locking"} /\ mpc[r] # "held")
  /\ [][\A r \in Threads :
          (spc[r] \in {"slw_outer", "slw_locking"}
             /\ mpc[r] # "held" /\ mpc'[r] = "held") =>
            \A d \in Threads :
              mpc[d] # "held" /\ spc[d] \notin {"U", "X"} \cup XWaitPcs]_vars
  /\ [][\A r \in Threads :
          ((\E d \in Threads \ {r} : spc[d] = "U")
             /\ (TryLockShared(r) \/ LockShared(r) \/ SharedCas(r))) =>
            /\ spc'[r] \in {"S", "ts_cas", "ls_cas"}
            /\ m' = m /\ mpc' = mpc
            /\ spc[r] = "idle" => spc'[r] # "S" /\ slk'[r] = inner
            /\ (spc[r] # "idle" /\ slk[r] = inner) => spc'[r] = "S"]_vars

\* after a downgrade: the downgrader d holds U; a reader that called
\* lock_shared() while d was waiting for X sleeps on the outer mutex, and
\* another reader holds S next to d (d has not released since the first
\* reader's call, so it went from X to U by update_lock_downgrade())
C30_Witness ==
  /\ test = "sux"
  /\ \E d, r, f \in Threads :
       /\ spc[d] = "U" /\ mpc[d] = "held"
       /\ wpri[r] = d /\ spc[r] = "slw_locking" /\ mpc[r] = "lw_asleep"
       /\ spc[f] = "S"
  /\ inner = 2 * WAITER

\* C31: the upgrade from U to X is atomic with respect to other writers.
\* While a thread holds U or is inside update_lock_upgrade(), no other thread
\* holds the outer mutex and no other thread enters U or X.  The upgrade is
\* one fetch_add(X - WAITER) that leaves the outer mutex alone; it goes on to
\* wait exactly when the value read was not WAITER, which is exactly when
\* some reader holds S; and the caller gets X only in a state where the
\* inner word equals X.
C31_UpgradeAtomic ==
  /\ [](\A t \in Threads :
          spc[t] \in {"U", "X"} \cup XWaitPcs =>
            /\ mpc[t] = "held"
            /\ \A u \in Threads \ {t} :
                 mpc[u] # "held" /\ spc[u] \notin {"U", "X"} \cup XWaitPcs)
  /\ [](\A t \in Threads : spc[t] = "X" => inner = X)
  /\ [][\A t \in Threads :
          /\ UpdateLockUpgrade(t) =>
               /\ inner' = FetchAdd(inner, X - WAITER)
               /\ m' = m /\ mpc' = mpc
               /\ spc'[t] = (IF inner = WAITER THEN "X" ELSE "x_wait")
               /\ inner # WAITER <=>
                    \E r \in Threads \ {t} : spc[r] \in {"S", "slw_acquired"}
          /\ (spc[t] \in {"U"} \cup XWaitPcs) =>
               /\ \A u \in Threads \ {t} :
                    spc'[u] \notin {"U", "X"} \cup XWaitPcs
               /\ spc'[t] = "X" => inner' = X
               /\ spc'[t] \in {"U", "X", "unlock_outer"} \cup XWaitPcs]_vars

\* thread 1, which takes X only by upgrading, sleeps in lock_inner_wait
\* because a reader holds S, while another thread that called lock() sleeps
\* on the outer mutex
C31_Witness ==
  /\ test = "sux"
  /\ spc[1] = "x_asleep" /\ mpc[1] = "held"
  /\ \E r, u \in Threads :
       /\ spc[r] = "S"
       /\ spc[u] = "x_outer" /\ mpc[u] = "lw_asleep"

\* C32: once the X bit of the inner word is set, the shared count in the
\* bits below it never increases until X is cleared.  An exchange of
\* try_lock_shared() or lock_shared() made while X is set fails and leaves
\* the word as it was (try_lock_shared() returns false, lock_shared() goes to
\* shared_lock_wait()), and the fetch_add of lock_update() / try_lock_update()
\* is never made while X is set: its caller holds the outer mutex.
C32_CountFrozenUnderX ==
  /\ [][(HasX(inner) /\ HasX(inner')) => LowBits(inner') <= LowBits(inner)]_vars
  /\ [][\A t \in Threads :
          /\ (HasX(inner) /\ (TryLockShared(t) \/ LockShared(t) \/ SharedCas(t))) =>
               /\ inner' = inner
               /\ spc'[t] = (IF TryLockShared(t) \/ spc[t] = "ts_cas"
                               THEN "idle" ELSE "slw_outer")
          /\ UpdateLockInner(t) => ~HasX(inner) /\ ~HasX(inner')]_vars
  /\ [](\A t \in Threads :
          (mpc[t] = "held" /\ spc[t] \in {"u_outer", "slw_locking", "slw_cas"})
             => ~HasX(inner))

\* X is set and its setter sleeps until a reader leaves; the lock_shared()
\* of a third thread has failed on the fast path and sleeps on the outer mutex
C32_Witness ==
  /\ test = "sux"
  /\ HasX(inner) /\ LowBits(inner) = WAITER
  /\ \E w, r \in Threads :
       /\ spc[w] = "x_asleep"
       /\ spc[r] = "slw_locking" /\ mpc[r] = "lw_asleep"

\* C33 as stated: the try operations of a SuxMutex never wait.  try_lock()
\* returns false, with the inner word and the outer mutex as they were,
\* whenever the outer mutex is unavailable or an S holder exists;
\* try_lock_update() returns false without changing the inner word when the
\* outer mutex is unavailable; a thread that went through try_lock() is never
\* inside lock_inner_wait, and the calls return true only with the caller
\* holding X (inner = X) respectively U.
C33_Original ==
  [][\A t \in Threads :
       /\ (TryLockExclusive(t) /\ (~LockImplOk(m) \/ LowBits(inner) # 0)) =>
            spc'[t] = "idle" /\ inner' = inner /\ m' = m /\ mpc' = mpc
       /\ (TryLockUpdate(t) /\ ~LockImplOk(m)) =>
            spc'[t] = "idle" /\ inner' = inner /\ m' = m /\ mpc' = mpc
       /\ (TryLockExclusive(t) /\ spc'[t] # "idle") =>
            mpc'[t] = "held" /\ inner = 0
       /\ (TryLockUpdate(t) /\ spc'[t] # "idle") =>
            mpc'[t] = "held" /\ ~HasX(inner)]_vars

\* C34: wait primitives that may return at any time without a wake are
\* absorbed by the lock paths.  A thread leaves its sleep on the mutex word
\* only to reload the word, and its sleep on the inner word only to reload
\* that word, changing neither.  lock() / spin_lock() return only by the
\* caller's own step that finds HOLDER clear and sets it, keeping the count
\* of waiters; lock() / update_lock_upgrade() of a SuxMutex leave
\* lock_inner_wait only to X and only with the inner word equal to X.  At
\* most one thread holds the mutex, and the bits below HOLDER count the
\* holder and the registered threads.
C34_SpuriousWakeAbsorbed ==
  /\ [](Cardinality(Holders) <= 1)
  /\ [](LowBits(m) = Cardinality(Holders \cup Registered))
  /\ [](\A t \in Threads : spc[t] = "X" => inner = X)
  /\ [][\A t \in Threads :
          /\ (mpc[t] = "lw_asleep" /\ mpc'[t] # "lw_asleep") =>
               mpc'[t] = "lw_reload" /\ m' = m
          /\ (mpc[t] \in AcquirePcs /\ mpc'[t] \notin AcquirePcs) =>
               /\ mpc'[t] = "held"
               /\ mpc[t] \in {"lw_or", "sp_or"}
               /\ ~HasHolder(m) /\ m' = m + HOLDER
          /\ (spc[t] = "x_asleep" /\ spc'[t] # "x_asleep") =>
               spc'[t] = "x_load" /\ inner' = inner
          /\ (spc[t] \in XWaitPcs /\ spc'[t] \notin XWaitPcs) =>
               spc'[t] = "X" /\ inner' = X /\ inner = X]_vars

\* a thread woke from its sleep on the mutex word though no unlock() was
\* ever made (no critical section has finished): the holder still holds, the
\* third thread never called, and the woken thread is about to reload
C34_Witness ==
  /\ test = "mutex"
  /\ n = 0 /\ m = HOLDER + 2 * WAITER
  /\ \E h, t, u \in Threads :
       mpc[h] = "held" /\ mpc[t] = "lw_reload" /\ mpc[u] = "idle"

\* C35 as stated: no spurious wakes are visible at the API level of the
\* condition variable.  The wait on the word inside wait() / wait_shared()
\* returns only after a signal() or broadcast() that was issued after the
\* call's increment, not merely because another waiter registered; stated
\* here in the weaker form that a wait on the word that does not go to sleep
\* returns only when some signal() or broadcast() of the round has executed
\* its read-modify-write at all.
C35_Original ==
  [][\A t \in Waiters :
       (kpc[t] = "k_unlock" /\ kpc'[t] \notin {"k_unlock", "k_asleep"}) =>
         IF test = "cv_signal"
           THEN sigs >= 2 \/ (sigs = 1 /\ kpc[Main] # "g_unlock")
           ELSE kpc[Main] \in {"m_notify_all", "m_join", "done"}]_vars

\* C36 as stated: bounded spin.  For every value of spin_rounds, 0 and 1
\* included, spin_lock(spin_rounds) on a contended Mutex executes at most
\* spin_rounds iterations of the spin loop before it enters the wait loop:
\* every iteration starts with at least one round left and uses it up.
C36_Original ==
  [][\A t \in Threads :
       (mpc[t] \in {"sp_load", "sp_or"} /\ (SpinLoad(t) \/ SpinOr(t))) =>
          /\ mspin[t] >= 1
          /\ mpc'[t] # "held" => mspin'[t] = mspin[t] - 1
          /\ mspin'[t] = 0 => mpc'[t] \notin {"sp_load", "sp_or"}]_vars

\* C37: a transactional_lock_guard on a SuxMutex is marked elided only if, at
\* its test, no thread holds the mutex in S, U or X mode and no thread waits
\* for it: is_locked_or_waiting() is true whenever a holder of any mode exists.
C37_Original ==
  [][\A t \in Threads :
       (elided[t] = "none" /\ elided'[t] = "x") =>
          /\ HoldS \cup HoldU \cup HoldX = {}
          /\ Registered = {}
          /\ \A d \in Threads : spc[d] \notin XWaitPcs
          /\ IsLockedOrWaiting' = FALSE]_vars

\* C38: with elision compiled in, a transactional_update_lock_guard whose
\* transaction begins while the mutex is neither locked nor waited for is
\* marked elided and does not call lock_update(); a thread inside an elided
\* guard of any flavour makes no call on the mutex (it never releases), and
\* the destructor of an elided guard only commits.
C38_Original ==
  [][\A t \in Threads :
       /\ (TransactionalGuard(t, "u") /\ ~IsLockedOrWaiting) =>
             /\ elided'[t] = "u"
             /\ spc'[t] = "idle" /\ mpc'[t] = "idle"
             /\ m' = m /\ inner' = inner
       /\ elided[t] # "none" =>
             /\ spc'[t] = spc[t] /\ mpc'[t] = mpc[t]
             /\ elided'[t] # elided[t] => (m' = m /\ inner' = inner)]_vars

\* C39: whenever the writer is a thread T that is outside every call of the
\* recursive mutex, a non-zero X count implies that the inner word is X and T
\* holds the underlying lock in X mode, and a zero X count with a non-zero U
\* count implies that the underlying lock is in U mode: X clear and T counted
\* in the inner word.
C39_Original ==
  \A T \in Threads :
    (writer = T /\ rpc[T] = "idle") =>
      /\ RecCount(recursive, FALSE) > 0 => (inner = X /\ spc[T] = "X")
      /\ (RecCount(recursive, FALSE) = 0 /\ RecCount(recursive, TRUE) > 0) =>
           (~HasX(inner) /\ inner >= WAITER /\ spc[T] = "U")

\* C40: SuxMutex deadlock freedom.  No reachable state has a thread asleep (on
\* the word of the outer mutex or on the inner word) while every thread is
\* either asleep or outside every call holding nothing, so that no running
\* thread is left to wake the sleepers; and under weak fairness of the
\* running threads (every holder eventually releases), whenever some thread
\* is inside an acquire and no thread holds the lock in any mode, some thread
\* eventually holds it.
C40_DeadlockFree ==
  /\ [](\/ \A t \in Threads : mpc[t] # "lw_asleep" /\ spc[t] # "x_asleep"
        \/ \E t \in Threads :
             /\ mpc[t] # "lw_asleep" /\ spc[t] # "x_asleep"
             /\ spc[t] # "idle" \/ mpc[t] # "idle")
  /\ ((\E t \in Threads :
          spc[t] \notin {"idle", "S", "U", "X", "s_notify", "unlock_outer"})
         /\ HoldS \cup HoldU \cup HoldX = {})
       ~> (HoldS \cup HoldU \cup HoldX # {})

\* C40 witness: one thread sleeps on the inner word with X set, another
\* sleeps on the word of the outer mutex, and the last reader has released
\* and is about to wake the first.
C40_Witness ==
  \E a, b, c \in Threads :
    /\ spc[a] = "x_asleep"
    /\ mpc[b] = "lw_asleep"
    /\ spc[c] = "s_notify"
    /\ inner = X
====
